---- MODULE Spec2Model ----
(***************************************************************************)
(* Open WebUI plugin collection: the streaming thought-block pipes         *)
(* (pipes/remove_thinking.py, "remove" variant, and pipes/hide_thinking.py,*)
(* "hide" variant).                                                        *)
(*                                                                         *)
(* Text is a sequence of characters.  Every character is a record          *)
(* [c |-> the character, p |-> its position in the upstream text], so that *)
(* the order in which input text reaches the caller can be read off the    *)
(* output; text the pipe itself writes (the details wrapper, the framing   *)
(* of a raw line) has p = 0.  The backquote character is written "BQ" and  *)
(* the line feed "NL".                                                     *)
(***************************************************************************)
EXTENDS Integers, Sequences, FiniteSets, TLC

VARIABLES
    variant,          \* "remove": pipes/remove_thinking.py, "hide": pipes/hide_thinking.py
    remove_thoughts,  \* valve remove_thoughts
    has_emitter,      \* whether __event_emitter__ is a callback (TRUE) or None
    api_key_ok,       \* whether valve api_key is a non-empty string
    stream,           \* body["stream"]
    text,             \* the name of the text the upstream model produces
    pos,              \* how many characters of text the upstream has delivered
    pc,               \* where the pipe coroutine is
    buffer,           \* local buffer
    thought_removed,  \* local thought_removed
    discarded,        \* local discarded (remove variant)
    yielded,          \* concatenation of everything the generator has yielded
    latest_message,   \* local latest_message (hide variant)
    clear_emitter,    \* local clear_emitter
    notes,            \* the events handed to EventEmitter.emit so far
    last_note,        \* the latest of them
    exc,              \* the exception being raised, "" when none
    skipped,          \* how many upstream lines were skipped so far
    raw_lines,        \* how many raw lines the disabled remove variant passed on
    filter,           \* the filter function that is called, "none" for the pipes
    body,             \* the arguments of the call of the filter
    returned,         \* what the call returned or raised
    fpc,              \* where the call of the filter is
    cards,            \* Anki DB Creator: the cards in cards.json, per chat id
    outlets,          \* Anki DB Creator: the calls of Filter.outlet
    self_emitter,     \* Anki DB Creator: whether self.emitter has a callback
    instance,         \* the Pipe instance that several calls of pipe share
    runs,             \* the calls of pipe on that instance
    langfuse,         \* Langfuse pipeline: self.langfuse and the uuids drawn
    chat_traces,      \* Langfuse pipeline: self.chat_traces
    model_names,      \* Langfuse pipeline: self.model_names
    trace_calls,      \* Langfuse pipeline: the calls of inlet and outlet so far
    shared_filter,    \* the filter whose inlet is called twice on one instance
    shared_emitter,   \* self.emitter of that instance
    inlets            \* the calls of inlet on that instance

pipeVars == <<variant, remove_thoughts, has_emitter, api_key_ok, stream, text,
              pos, pc, buffer, thought_removed, discarded, yielded,
              latest_message, clear_emitter, notes, last_note, exc, skipped,
              raw_lines>>
filterVars == <<filter, body, returned, fpc>>
cardVars == <<cards, outlets, self_emitter>>
runVars == <<instance, runs>>
traceVars == <<langfuse, chat_traces, model_names, trace_calls>>
inletVars == <<shared_filter, shared_emitter, inlets>>
vars == <<pipeVars, filterVars, cardVars, runVars, traceVars, inletVars>>

(***************************************************************************)
(* Bounds of the model.                                                    *)
(***************************************************************************)
\* upstream lines that carry no text (blank, not JSON, no content) per run
MaxSkipped == 1
\* raw lines the disabled remove variant passes on per run
MaxRawLines == 1

(***************************************************************************)
(* Text helpers.                                                           *)
(***************************************************************************)
Min(S) == CHOOSE x \in S : \A y \in S : x <= y
Max(S) == CHOOSE x \in S : \A y \in S : x >= y

\* the characters of a text, without their positions
Chars(t) == [i \in 1..Len(t) |-> t[i].c]
\* the positions of a text, without the characters
Positions(t) == [i \in 1..Len(t) |-> t[i].p]
\* upstream text: character i has position i
Tag(s) == [i \in 1..Len(s) |-> [c |-> s[i], p |-> i]]
\* text written by the pipe itself
Lit(s) == [i \in 1..Len(s) |-> [c |-> s[i], p |-> 0]]

\* python s[:n] and s[n:] for 0 <= n, and s[:-n], s[-n:] for 0 < n <= len(s)
Take(s, n) == SubSeq(s, 1, n)
Drop(s, n) == SubSeq(s, n + 1, Len(s))
DropLast(s, n) == SubSeq(s, 1, Len(s) - n)
TakeLast(s, n) == SubSeq(s, Len(s) - n + 1, Len(s))

RECURSIVE Concat(_)
Concat(frags) == IF frags = <<>> THEN <<>> ELSE Head(frags) \o Concat(Tail(frags))

(***************************************************************************)
(* Valves and the regular expressions compiled from them.                  *)
(***************************************************************************)
\* Valves.start_thought, default: three backquotes, " ?", "thinking"
start_thought ==
    <<"BQ", "BQ", "BQ", " ", "?", "t", "h", "i", "n", "k", "i", "n", "g">>
\* Valves.stop_thought, default: three backquotes
stop_thought == <<"BQ", "BQ", "BQ">>

\* re.match of a regular expression made of literals and "x?" at index i of s:
\* the index after the match, 0 when there is none.  "x?" first tries to take x.
RECURSIVE ReMatch(_, _, _, _)
ReMatch(re, k, s, i) ==
    IF k > Len(re) THEN i
    ELSE IF k < Len(re) /\ re[k + 1] = "?"
         THEN LET took == IF i <= Len(s) /\ s[i].c = re[k]
                          THEN ReMatch(re, k + 2, s, i + 1) ELSE 0
              IN  IF took # 0 THEN took ELSE ReMatch(re, k + 2, s, i)
         ELSE IF i <= Len(s) /\ s[i].c = re[k]
              THEN ReMatch(re, k + 1, s, i + 1) ELSE 0

\* the indices of s at which re matches
MatchesAt(re, s) == {i \in 1..Len(s) : ReMatch(re, 1, s, i) # 0}

\* self.start_thought.search(s) is not None
StartSearch(s) == MatchesAt(start_thought, s) # {}

\* self.pattern.search(s): start_thought + "(.*)?" + stop_thought with DOTALL.
\* The leftmost start that has a stop after it; "(.*)?" is greedy, so the
\* match runs to the last stop of s.  [found, from, to]: s[from..to] is the
\* match.
PatternSearch(s) ==
    LET stops == MatchesAt(stop_thought, s)
        after(i) == {k \in stops : k >= ReMatch(start_thought, 1, s, i)}
        cands == {i \in MatchesAt(start_thought, s) : after(i) # {}}
    IN  IF cands = {} THEN [found |-> FALSE, from |-> 0, to |-> 0]
        ELSE LET i == Min(cands)
                 k == Max(after(i))
             IN  [found |-> TRUE, from |-> i,
                  to |-> ReMatch(stop_thought, 1, s, k) - 1]

\* re.sub(repl, s): every leftmost non-overlapping match of re replaced by repl
RECURSIVE ReSub(_, _, _, _)
ReSub(re, repl, s, i) ==
    IF i > Len(s) THEN <<>>
    ELSE LET e == ReMatch(re, 1, s, i)
         IN  IF e > i THEN repl \o ReSub(re, repl, s, e)
             ELSE <<s[i]>> \o ReSub(re, repl, s, i + 1)

\* str.replace(sub, ""): every leftmost non-overlapping occurrence of sub removed
RECURSIVE StrRemove(_, _, _)
StrRemove(s, sub, i) ==
    IF i > Len(s) THEN <<>>
    ELSE IF i + Len(sub) - 1 <= Len(s)
            /\ Chars(SubSeq(s, i, i + Len(sub) - 1)) = Chars(sub)
         THEN StrRemove(s, sub, i + Len(sub))
         ELSE <<s[i]>> \o StrRemove(s, sub, i + 1)

\* mutant of len_start_thought: the factor 0.5 instead of 1.5
len_start_thought_half == Len(start_thought) \div 2

\* len_start_thought = int(1.5 * len(self.valves.start_thought))
len_start_thought == (3 * Len(start_thought)) \div 2

\* the replacement texts of the hide variant, each written as one token
DetailsOpen == Lit(<<"NLNL<details>NL<summary>Reasonning</summary>NLNL">>)
DetailsClose == Lit(<<"NLNL</details>NL">>)

\* the hide variant's rewrite of a matched section
Rewrap(section) ==
    ReSub(stop_thought, DetailsClose,
          ReSub(start_thought, DetailsOpen, section, 1), 1)

(***************************************************************************)
(* The upstream lines (requests' iter_lines) and their parsing.            *)
(* A line is [raw, obj]: raw is "json" for a "data: " line that holds a    *)
(* JSON object, obj, and otherwise the line's own text.                    *)
(***************************************************************************)
\* data: {"choices": [{"delta": {"content": t}}]}
ContentLine(t) ==
    [raw |-> "json", obj |-> [choices |-> <<[delta |-> [content |-> t]]>>]]
\* data: {"choices": [{"delta": {"role": "assistant"}}]}
RoleLine ==
    [raw |-> "json", obj |-> [choices |-> <<[delta |-> [role |-> "assistant"]]>>]]
\* data: {"id": "chatcmpl"}
NoChoicesLine == [raw |-> "json", obj |-> [id |-> "chatcmpl"]]
\* data: {"error": {"message": "upstream error"}}
ErrorLine == [raw |-> "json", obj |-> [error |-> [message |-> "upstream error"]]]
\* data: [DONE]
DoneLine == [raw |-> "[DONE]", obj |-> [none |-> TRUE]]
\* a server-sent-events comment line, which is not JSON
CommentLine == [raw |-> ": keep-alive", obj |-> [none |-> TRUE]]
\* the blank line between two events
BlankLine == [raw |-> "", obj |-> [none |-> TRUE]]

SkippableKinds == {"blank", "comment", "role"}
LineOf(kind) ==
    CASE kind = "blank" -> BlankLine
      [] kind = "comment" -> CommentLine
      [] kind = "role" -> RoleLine

\* the text delta a line carries, <<>> when it carries none
DeltaOf(line) ==
    IF line.raw = "json" /\ "choices" \in DOMAIN line.obj
       /\ "delta" \in DOMAIN line.obj.choices[1]
       /\ "content" \in DOMAIN line.obj.choices[1].delta
    THEN line.obj.choices[1].delta.content
    ELSE <<>>

\* mutant of GetContent: a delta of white space only is taken for empty
GetContentStripped(delta) ==
    IF "content" \in DOMAIN delta /\ \E i \in 1..Len(delta.content) : delta.content[i].c # " "
    THEN delta.content ELSE <<>>

\* delta.get("content", "")
GetContent(delta) ==
    IF "content" \in DOMAIN delta THEN delta.content ELSE <<>>

\* mutant of OnDecodeError: the decode error is not caught
OnDecodeErrorRaises == "raise"

\* what "except (json.JSONDecodeError, KeyError):" around json.loads does:
\* raise Exception("CONTINUE"), in the remove variant "continue"
OnDecodeError == "CONTINUE"

\* Pipe.parse_chunk (the remove variant has the same statements inline,
\* remove_thinking.py 238-257).  [tag, content, e]: tag "content" returns
\* content, tag "DONE" and "CONTINUE" are the two control exceptions, tag
\* "raise" raises the exception e.
parse_chunk(line) ==
    LET res(tag, content, e) == [tag |-> tag, content |-> content, e |-> e]
        obj == line.obj
    IN  IF line.raw = "[DONE]" THEN res("DONE", <<>>, "")
        ELSE IF line.raw # "json" THEN res(OnDecodeError, <<>>, "JSONDecodeError")
        ELSE IF "error" \in DOMAIN obj /\ "message" \in DOMAIN obj.error
                /\ obj.error.message # ""
        THEN res("raise", <<>>, "Error: upstream error")
        ELSE IF "choices" \notin DOMAIN obj \/ "delta" \notin DOMAIN obj.choices[1]
        THEN res("raise", <<>>, "KeyError for parsed_line")
        ELSE LET content == GetContent(obj.choices[1].delta)
             IN  IF content = <<>> THEN res("CONTINUE", <<>>, "")
                 ELSE res("content", content, "")

\* the bytes of a line, as the disabled remove variant yields them
RawLine(line) ==
    IF line.raw # "json" THEN Lit(<<line.raw>>)
    ELSE IF DeltaOf(line) # <<>>
    THEN Lit(<<"data: {choices: [{delta: {content: ">>) \o DeltaOf(line)
         \o Lit(<<"}}]}">>)
    ELSE Lit(<<"data: {...}">>)

(***************************************************************************)
(* Notifications: prog, succ and err of Pipe.pipe, and EventEmitter.       *)
(***************************************************************************)
Msg(t, n, e) == [text |-> t, n |-> n, e |-> e]
NoMsg == Msg("", 0, "")

\* EventEmitter.emit: the event handed to the callback
emit(description, status, done) ==
    [status |-> status, description |-> description, done |-> done]
progress_update(description) == emit(description, "in_progress", FALSE)
error_update(description) == emit(description, "error", TRUE)
success_update(description) == emit(description, "success", TRUE)

NoEvent == emit(Msg("none", 0, ""), "none", FALSE)

prog(m) == [fn |-> "prog", msg |-> m]
succ(m) == [fn |-> "succ", msg |-> m]
err(m) == [fn |-> "err", msg |-> m]

\* the event a call of prog, succ or err hands to the emitter
EventOf(call) ==
    CASE call.fn = "prog" -> progress_update(call.msg)
      [] call.fn = "succ" -> success_update(call.msg)
      [] call.fn = "err" -> error_update(call.msg)

\* the hide variant returns early when the message repeats the latest one
Repeats(v, call, latest) == v = "hide" /\ call.msg = latest

\* one call of prog, succ or err on the notifier state
\* ns = [latest_message, clear_emitter, notes, last_note]
Notify(v, ns, call) ==
    IF Repeats(v, call, ns.latest_message) THEN ns
    ELSE [latest_message |-> IF v = "hide" THEN call.msg ELSE ns.latest_message,
          clear_emitter |-> IF call.fn = "err" THEN FALSE ELSE ns.clear_emitter,
          notes |-> ns.notes \cup {EventOf(call)},
          last_note |-> EventOf(call)]

RECURSIVE NotifyAll(_, _, _)
NotifyAll(v, ns, calls) ==
    IF calls = <<>> THEN ns
    ELSE NotifyAll(v, Notify(v, ns, Head(calls)), Tail(calls))

\* "if clear_emitter: await succ('')", the last statement before return
ClearCalls(ns) == IF ns.clear_emitter THEN <<succ(NoMsg)>> ELSE <<>>

\* what the callback received: EventEmitter.emit calls it only when it is set
Delivered == IF has_emitter THEN notes ELSE {}

(***************************************************************************)
(* The loop body and the end-of-stream code of the two variants, as        *)
(* functions of the locals.  Each returns the new locals, the fragments it *)
(* yields (in order) and its calls of prog, succ and err (in order).       *)
(***************************************************************************)
Removed(n) == Msg("Removed thought block", n, "")
Waiting(n) == Msg("Waiting for thought to finish", n, "")
NeverFinished == Msg("It seems a thought was never finished", 0, "")
NeverFound == Msg("Thought block never found", 0, "")
ErrorMsg(e) == Msg("Error: ", 0, e)

\* mutant of HoldBack: the buffer is never cut, all of it waits for the end
HoldBackKeepsAll(buf, n) ==
    IF buf = <<>> THEN [buffer |-> buf, yields |-> <<>>, calls |-> <<>>]
    ELSE IF StartSearch(buf)
    THEN [buffer |-> buf, yields |-> <<>>, calls |-> <<prog(Waiting(n + 1))>>]
    ELSE [buffer |-> buf, yields |-> <<>>, calls |-> <<>>]

\* mutant of HoldBack: a buffer without a start delimiter is yielded whole
HoldBackEmitsAll(buf, n) ==
    IF buf = <<>> THEN [buffer |-> buf, yields |-> <<>>, calls |-> <<>>]
    ELSE IF StartSearch(buf)
    THEN [buffer |-> buf, yields |-> <<>>, calls |-> <<prog(Waiting(n + 1))>>]
    ELSE [buffer |-> <<>>, yields |-> <<buf>>, calls |-> <<>>]

\* "if buffer:" at the end of the loop body: wait while a start delimiter is
\* in the buffer, else yield all but the last len_start_thought characters
HoldBack(buf, n) ==
    IF buf = <<>> THEN [buffer |-> buf, yields |-> <<>>, calls |-> <<>>]
    ELSE IF StartSearch(buf)
    THEN [buffer |-> buf, yields |-> <<>>, calls |-> <<prog(Waiting(n + 1))>>]
    ELSE IF Len(buf) > len_start_thought
    THEN [buffer |-> TakeLast(buf, len_start_thought),
          yields |-> <<DropLast(buf, len_start_thought)>>, calls |-> <<>>]
    ELSE [buffer |-> buf, yields |-> <<>>, calls |-> <<>>]

\* remove variant, "buffer += content" to the end of the loop body
RemoveBody(buf, n, disc, content) ==
    LET b1 == buf \o content
        m == PatternSearch(b1)
        b2 == IF m.found THEN Take(b1, m.from - 1) \o Drop(b1, m.to) ELSE b1
        n2 == IF m.found THEN n + 1 ELSE n
        h == HoldBack(b2, n2)
    IN  [buffer |-> h.buffer,
         thought_removed |-> n2,
         discarded |-> IF m.found THEN disc \o b2 ELSE disc,
         yields |-> h.yields,
         calls |-> (IF m.found THEN <<succ(Removed(n2))>> ELSE <<>>) \o h.calls]

\* hide variant, "buffer += content" to the end of the loop body
HideBody(buf, n, disc, content) ==
    LET b1 == buf \o content
        m == PatternSearch(b1)
        section == SubSeq(b1, m.from, m.to)
        b2 == IF m.found THEN StrRemove(b1, section, 1) ELSE b1
        n2 == IF m.found THEN n + 1 ELSE n
        h == HoldBack(b2, n2)
    IN  [buffer |-> h.buffer,
         thought_removed |-> n2,
         discarded |-> disc,
         yields |-> (IF m.found THEN <<Rewrap(section)>> ELSE <<>>) \o h.yields,
         calls |-> (IF m.found THEN <<succ(Removed(n2))>> ELSE <<>>) \o h.calls]

LoopBody(v, buf, n, disc, content) ==
    IF v = "remove" THEN RemoveBody(buf, n, disc, content)
    ELSE HideBody(buf, n, disc, content)

\* "Thought block never found" is reported with err
NeverFoundCalls(n) == IF n = 0 THEN <<err(NeverFound)>> ELSE <<>>

\* remove variant, from "if buffer:" after the loop to "Thought block never found"
RemoveFlush(buf, n) ==
    LET m == PatternSearch(buf)
        b2 == Take(buf, m.from - 1) \o Drop(buf, m.to)
    IN  IF buf = <<>>
        THEN [buffer |-> buf, thought_removed |-> n, yields |-> <<>>,
              calls |-> NeverFoundCalls(n)]
        ELSE IF m.found
        THEN [buffer |-> b2, thought_removed |-> n + 1, yields |-> <<b2>>,
              calls |-> <<succ(Removed(n + 1))>>]
        ELSE IF StartSearch(buf)
        THEN [buffer |-> buf, thought_removed |-> n, yields |-> <<buf>>,
              calls |-> <<err(NeverFinished)>> \o NeverFoundCalls(n)]
        ELSE [buffer |-> buf, thought_removed |-> n, yields |-> <<buf>>,
              calls |-> NeverFoundCalls(n)]

\* hide variant, from "if buffer:" after the loop to "Thought block never found"
HideFlush(buf, n) ==
    LET m == PatternSearch(buf)
        section == SubSeq(buf, m.from, m.to)
        b2 == StrRemove(buf, section, 1)
    IN  IF buf = <<>>
        THEN [buffer |-> buf, thought_removed |-> n, yields |-> <<>>,
              calls |-> NeverFoundCalls(n)]
        ELSE IF m.found
        THEN [buffer |-> b2, thought_removed |-> n + 1,
              yields |-> <<Rewrap(section), b2>>,
              calls |-> <<succ(Removed(n + 1))>>]
        ELSE IF StartSearch(buf)
        THEN [buffer |-> buf, thought_removed |-> n, yields |-> <<buf>>,
              calls |-> <<err(NeverFinished)>> \o NeverFoundCalls(n)]
        ELSE [buffer |-> buf, thought_removed |-> n, yields |-> <<buf>>,
              calls |-> NeverFoundCalls(n)]

\* mutant of Flush: an unfinished thought is reported and not yielded
FlushDropsUnfinished(v, buf, n) ==
    LET f == IF v = "remove" THEN RemoveFlush(buf, n) ELSE HideFlush(buf, n)
    IN  IF StartSearch(buf) /\ ~PatternSearch(buf).found
        THEN [f EXCEPT !.yields = <<>>] ELSE f

Flush(v, buf, n) == IF v = "remove" THEN RemoveFlush(buf, n) ELSE HideFlush(buf, n)

\* the loop over the chunks and the code after it, as a function of the
\* chunks: [yielded, thought_removed, calls] at the return
RECURSIVE RunLoop(_, _, _, _, _, _, _)
RunLoop(v, buf, n, disc, out, calls, chunks) ==
    IF chunks = <<>>
    THEN LET f == Flush(v, buf, n)
         IN  [yielded |-> out \o Concat(f.yields),
              thought_removed |-> f.thought_removed,
              calls |-> calls \o f.calls]
    ELSE LET b == LoopBody(v, buf, n, disc, Head(chunks))
         IN  RunLoop(v, b.buffer, b.thought_removed, b.discarded,
                     out \o Concat(b.yields), calls \o b.calls, Tail(chunks))

RunPipe(v, chunks) == RunLoop(v, <<>>, 0, <<>>, <<>>, <<>>, chunks)

\* mutant of ExceptYields: the error text is yielded for every exception
ExceptYieldsAlways(v, disc, e) ==
    <<Lit(<<"An error has occured:NL---NL", e, "NL---">>)>>

\* the text the except clause yields
\* remove: only when discarded is set and not empty; the message ends with
\* the characters {e}, the string is no f-string
\* hide: only when err is not yet a local, that is, update_valves raised
ExceptYields(v, disc, e) ==
    IF v = "remove"
    THEN IF disc # <<>>
         THEN <<Lit(<<"An error has occured. Here's the discarded text anyway:NL">>)
                \o disc \o Lit(<<"NLNLError was: '{e}'">>)>>
         ELSE <<>>
    ELSE IF e = "Valve api_key is empty"
         THEN <<Lit(<<"An error has occured:NL---NL", e, "NL---">>)>>
         ELSE <<>>

\* mutant of ExceptCalls: the except clause re-raises without calling err
ExceptCallsNone(v, e) == <<>>

\* the calls of the except clause: err(f"Error: {e}"), in the hide variant
\* only when err is a local
ExceptCalls(v, e) ==
    IF v = "hide" /\ e = "Valve api_key is empty" THEN <<>>
    ELSE <<err(ErrorMsg(e))>>

(***************************************************************************)
(* The texts the upstream model may produce.  The upstream cuts a text     *)
(* into chunks wherever it likes and may end the stream after any chunk.   *)
(***************************************************************************)
\* three backquotes, " thinking", NL, "secret", NL, three backquotes, "done"
ScenarioA ==
    <<"BQ", "BQ", "BQ", " ", "t", "h", "i", "n", "k", "i", "n", "g", "NL",
      "s", "e", "c", "r", "e", "t", "NL", "BQ", "BQ", "BQ", "d", "o", "n", "e">>
\* "no special content here"
ScenarioB ==
    <<"n", "o", " ", "s", "p", "e", "c", "i", "a", "l", " ", "c", "o", "n",
      "t", "e", "n", "t", " ", "h", "e", "r", "e">>
\* three backquotes, " thinking", NL, "never closes"
ScenarioC ==
    <<"BQ", "BQ", "BQ", " ", "t", "h", "i", "n", "k", "i", "n", "g", "NL",
      "n", "e", "v", "e", "r", " ", "c", "l", "o", "s", "e", "s">>
\* "a", start, "b", stop, "c"
OneBlock ==
    <<"a", "BQ", "BQ", "BQ", "t", "h", "i", "n", "k", "i", "n", "g", "b",
      "BQ", "BQ", "BQ", "c">>
\* start, stop, "m", start, stop
TwoBlocks ==
    <<"BQ", "BQ", "BQ", "t", "h", "i", "n", "k", "i", "n", "g", "BQ", "BQ",
      "BQ", "m", "BQ", "BQ", "BQ", "t", "h", "i", "n", "k", "i", "n", "g",
      "BQ", "BQ", "BQ">>
\* "hello world.", start, "b", stop, "c"
LongLead ==
    <<"h", "e", "l", "l", "o", " ", "w", "o", "r", "l", "d", ".", "BQ", "BQ",
      "BQ", "t", "h", "i", "n", "k", "i", "n", "g", "b", "BQ", "BQ", "BQ",
      "c">>

TextNames == {"ScenarioA", "ScenarioB", "ScenarioC", "OneBlock", "TwoBlocks",
              "LongLead"}
\* the upstream text of a name, every character with its position
TextOf(name) ==
    CASE name = "ScenarioA" -> Tag(ScenarioA)
      [] name = "ScenarioB" -> Tag(ScenarioB)
      [] name = "ScenarioC" -> Tag(ScenarioC)
      [] name = "OneBlock" -> Tag(OneBlock)
      [] name = "TwoBlocks" -> Tag(TwoBlocks)
      [] name = "LongLead" -> Tag(LongLead)

\* the part of the text the upstream has delivered, and the part it has not
Consumed == Take(TextOf(text), pos)
Pending == Drop(TextOf(text), pos)

(***************************************************************************)
(* Pipe.pipe as a state machine.                                           *)
(***************************************************************************)
\* UserValves.debug / Valves.debug, default False
debug == FALSE

cfg == <<variant, remove_thoughts, has_emitter, api_key_ok, stream, text>>

PipeInit ==
    /\ variant \in {"remove", "hide"}
    /\ remove_thoughts \in BOOLEAN
    /\ has_emitter \in BOOLEAN
    /\ api_key_ok \in BOOLEAN
    /\ stream \in BOOLEAN
    /\ text \in TextNames
    /\ pos = 0
    /\ pc = "start"
    /\ buffer = <<>>
    /\ thought_removed = 0
    /\ discarded = <<>>
    /\ yielded = <<>>
    /\ latest_message = NoMsg
    /\ clear_emitter = ~debug
    /\ notes = {}
    /\ last_note = NoEvent
    /\ exc = ""
    /\ skipped = 0
    /\ raw_lines = 0

NS == [latest_message |-> latest_message, clear_emitter |-> clear_emitter,
       notes |-> notes, last_note |-> last_note]

\* the calls of prog, succ and err of a step, applied in order
Calls(calls) ==
    LET ns == NotifyAll(variant, NS, calls)
    IN  /\ latest_message' = ns.latest_message
        /\ clear_emitter' = ns.clear_emitter
        /\ notes' = ns.notes
        /\ last_note' = ns.last_note

\* the calls of a step that returns: "if clear_emitter: await succ('')" last
CallsAndClear(calls) ==
    LET ns == NotifyAll(variant, NS, calls)
    IN  Calls(calls \o ClearCalls(ns))

\* the fragments a step yields, in order
Yield(frags) == yielded' = yielded \o Concat(frags)

\* an exception is raised inside the try block
Raise(e) ==
    /\ exc' = e
    /\ pc' = "except"

\* self.update_valves(): the two assertions on valve api_key.  The remove
\* variant calls it before its try block, the hide variant inside.
UpdateValves ==
    /\ pc = "start"
    /\ IF api_key_ok
       THEN pc' = "request" /\ exc' = exc
       ELSE IF variant = "hide"
       THEN Raise("Valve api_key is empty")
       ELSE exc' = "Api_key is empty" /\ pc' = "raised"
    /\ UNCHANGED <<cfg, pos, buffer, thought_removed, discarded, yielded,
                   latest_message, clear_emitter, notes,
                   last_note, skipped, raw_lines>>

\* from "Waiting for response" to the start of the loop over the lines, or,
\* for a title request (stream is false), to the return
Request ==
    /\ pc = "request"
    /\ \E ok \in BOOLEAN :
        IF ~ok
        THEN /\ Calls(<<prog(Msg("Waiting for response", 0, ""))>>)
             /\ Raise(IF variant = "hide" THEN "Error when creating requests: "
                      ELSE "HTTPError")
             /\ UNCHANGED <<pos, yielded>>
        ELSE IF stream
        THEN /\ Calls(<<prog(Msg("Waiting for response", 0, "")),
                        prog(Msg("Receiving chunks", 0, ""))>>)
             /\ pc' = IF remove_thoughts THEN "stream" ELSE "passthrough"
             /\ UNCHANGED <<pos, yielded, exc>>
        ELSE /\ CallsAndClear(<<prog(Msg("Waiting for response", 0, "")),
                                prog(Msg("Returning directly", 0, ""))>>)
             /\ Yield(<<TextOf(text)>>)
             /\ pos' = Len(TextOf(text))
             /\ pc' = "done"
             /\ exc' = exc
    /\ UNCHANGED <<cfg, buffer, thought_removed, discarded, skipped, raw_lines>>

\* the code after the loop over the lines, to the return
Finish ==
    LET f == Flush(variant, buffer, thought_removed)
        out == yielded \o Concat(f.yields)
    IN  /\ buffer' = f.buffer
        /\ thought_removed' = f.thought_removed
        /\ Yield(f.yields)
        /\ IF variant = "hide" /\ out = <<>>
           THEN Calls(f.calls) /\ Raise("No text to show")
           ELSE CallsAndClear(f.calls) /\ pc' = "done" /\ exc' = exc
        /\ UNCHANGED <<discarded, skipped, raw_lines>>

\* one pass of "for line in r.iter_lines():" with thought removal enabled
ReadLine(line) ==
    /\ pc = "stream"
    /\ pos' = pos + Len(DeltaOf(line))
    /\ LET r == IF line.raw = "" THEN [tag |-> "CONTINUE", content |-> <<>>, e |-> ""]
                ELSE parse_chunk(line)
       IN  CASE r.tag = "DONE" -> Finish
             [] r.tag = "CONTINUE" ->
                    /\ skipped < MaxSkipped
                    /\ skipped' = skipped + 1
                    /\ UNCHANGED <<pc, buffer, thought_removed, discarded,
                                   yielded, latest_message, clear_emitter,
                                   notes, last_note, exc, raw_lines>>
             [] r.tag = "raise" ->
                    /\ Raise(r.e)
                    /\ UNCHANGED <<buffer, thought_removed, discarded,
                                   yielded, latest_message, clear_emitter,
                                   notes, last_note, skipped, raw_lines>>
             [] r.tag = "content" ->
                    LET b == LoopBody(variant, buffer, thought_removed,
                                      discarded, r.content)
                    IN  /\ buffer' = b.buffer
                        /\ thought_removed' = b.thought_removed
                        /\ discarded' = b.discarded
                        /\ Yield(b.yields)
                        /\ Calls(b.calls)
                        /\ UNCHANGED <<pc, exc, skipped, raw_lines>>
    /\ UNCHANGED cfg

\* the upstream closes the stream without a [DONE] line
Exhausted ==
    /\ pc = "stream"
    /\ pos = Len(TextOf(text))
    /\ Finish
    /\ UNCHANGED <<cfg, pos>>

\* one pass of "for line in r.iter_lines():" with thought removal disabled:
\* the remove variant yields the line as it is, the hide variant its content
PassLine(line) ==
    /\ pc = "passthrough"
    /\ pos' = pos + Len(DeltaOf(line))
    /\ IF variant = "remove"
       THEN /\ raw_lines < MaxRawLines
            /\ raw_lines' = raw_lines + 1
            /\ Yield(<<RawLine(line)>>)
            /\ UNCHANGED <<pc, exc, skipped, latest_message, clear_emitter,
                           notes, last_note>>
       ELSE LET r == parse_chunk(line)
            IN  CASE r.tag = "DONE" ->
                        /\ CallsAndClear(<<>>)
                        /\ pc' = "done"
                        /\ UNCHANGED <<yielded, exc, skipped, raw_lines>>
                  [] r.tag = "CONTINUE" ->
                        /\ skipped < MaxSkipped
                        /\ skipped' = skipped + 1
                        /\ UNCHANGED <<pc, yielded, exc, raw_lines,
                                       latest_message, clear_emitter, notes,
                                       last_note>>
                  [] r.tag = "raise" ->
                        /\ Raise("Error when parsing chunk: ")
                        /\ UNCHANGED <<yielded, skipped, raw_lines,
                                       latest_message, clear_emitter, notes,
                                       last_note>>
                  [] r.tag = "content" ->
                        /\ Yield(<<r.content>>)
                        /\ UNCHANGED <<pc, exc, skipped, raw_lines,
                                       latest_message, clear_emitter, notes,
                                       last_note>>
    /\ UNCHANGED <<cfg, buffer, thought_removed, discarded>>

\* the pass-through loop ends because the upstream closes the stream
PassEnd ==
    /\ pc = "passthrough"
    /\ pos = Len(TextOf(text))
    /\ CallsAndClear(<<>>)
    /\ pc' = "done"
    /\ UNCHANGED <<cfg, pos, buffer, thought_removed, discarded, yielded, exc,
                   skipped, raw_lines>>

\* "except Exception as e:" to "raise"
ExceptHandler ==
    /\ pc = "except"
    /\ Calls(ExceptCalls(variant, exc))
    /\ Yield(ExceptYields(variant, discarded, exc))
    /\ pc' = "raised"
    /\ UNCHANGED <<cfg, pos, buffer, thought_removed, discarded, exc, skipped,
                   raw_lines>>

\* the lines the upstream may send next: the next k characters of the text
\* as one delta, a line that carries no text, an error object, an object
\* without choices, or [DONE]
Upstream ==
    {ContentLine(Take(Pending, k)) : k \in 1..Len(Pending)}
        \cup {LineOf(kind) : kind \in SkippableKinds}
        \cup {ErrorLine, NoChoicesLine, DoneLine}

\* no filter is called while a pipe runs
NoFilter ==
    /\ filter = "none"
    /\ body = <<>>
    /\ returned = <<>>
    /\ fpc = "none"

\* no outlet of the Anki DB Creator is called
NoCards ==
    /\ cards = <<>>
    /\ outlets = <<>>
    /\ self_emitter = FALSE

\* no second call of pipe
NoRuns ==
    /\ instance = "none"
    /\ runs = <<>>

\* no call of the Langfuse pipeline
NoTraces ==
    /\ langfuse = "none"
    /\ chat_traces = <<>>
    /\ model_names = <<>>
    /\ trace_calls = <<>>

\* no overlapping calls of inlet
NoInlets ==
    /\ shared_filter = "none"
    /\ shared_emitter = "none"
    /\ inlets = <<>>

Init == PipeInit /\ NoFilter /\ NoCards /\ NoRuns /\ NoTraces /\ NoInlets

Next ==
    \/ UpdateValves /\ UNCHANGED <<filterVars, cardVars, runVars, traceVars, inletVars>>
    \/ Request /\ UNCHANGED <<filterVars, cardVars, runVars, traceVars, inletVars>>
    \/ \E line \in Upstream : ReadLine(line) /\ UNCHANGED <<filterVars, cardVars, runVars, traceVars, inletVars>>
    \/ Exhausted /\ UNCHANGED <<filterVars, cardVars, runVars, traceVars, inletVars>>
    \/ \E line \in Upstream : PassLine(line) /\ UNCHANGED <<filterVars, cardVars, runVars, traceVars, inletVars>>
    \/ PassEnd /\ UNCHANGED <<filterVars, cardVars, runVars, traceVars, inletVars>>
    \/ ExceptHandler /\ UNCHANGED <<filterVars, cardVars, runVars, traceVars, inletVars>>

Spec == Init /\ [][Next]_vars

(***************************************************************************)
(* Properties.                                                             *)
(***************************************************************************)
\* a streamed request with thought removal enabled has returned
StreamDone == pc = "done" /\ stream /\ remove_thoughts

\* the first complete span of s, matched non-greedily: the leftmost start
\* that has a stop after it, to the first such stop
FirstSpan(s) ==
    LET stops == MatchesAt(stop_thought, s)
        after(i) == {k \in stops : k >= ReMatch(start_thought, 1, s, i)}
        cands == {i \in MatchesAt(start_thought, s) : after(i) # {}}
    IN  IF cands = {} THEN [found |-> FALSE, from |-> 0, body |-> 0, stop |-> 0, to |-> 0]
        ELSE LET i == Min(cands)
                 k == Min(after(i))
             IN  [found |-> TRUE, from |-> i,
                  body |-> ReMatch(start_thought, 1, s, i), stop |-> k,
                  to |-> ReMatch(stop_thought, 1, s, k) - 1]

\* s with every complete span removed (remove) or rewrapped (hide)
RECURSIVE Expected(_, _)
Expected(v, s) ==
    LET m == FirstSpan(s)
    IN  IF ~m.found THEN s
        ELSE Take(s, m.from - 1)
             \o (IF v = "hide"
                 THEN DetailsOpen \o SubSeq(s, m.body, m.stop - 1) \o DetailsClose
                 ELSE <<>>)
             \o Expected(v, Drop(s, m.to))

\* the positions of the upstream characters of a text, in the order of the text
RECURSIVE UpstreamPositions(_)
UpstreamPositions(t) ==
    IF t = <<>> THEN <<>>
    ELSE (IF Head(t).p # 0 THEN <<Head(t).p>> ELSE <<>>) \o UpstreamPositions(Tail(t))

\* the upstream characters of a text
RECURSIVE FromUpstream(_)
FromUpstream(t) ==
    IF t = <<>> THEN <<>>
    ELSE (IF Head(t).p # 0 THEN <<Head(t)>> ELSE <<>>) \o FromUpstream(Tail(t))

StrictlyIncreasing(ps) == \A i \in 1..Len(ps) : i < Len(ps) => ps[i] < ps[i + 1]

\* C1: when a streamed request with thought removal returns, the
\* concatenation of everything yielded is the delivered text with every
\* complete start..stop span removed (remove) or rewrapped (hide), whatever
\* the chunking.  The code violates it.
C1_ConcatenationInvariant ==
    StreamDone => Chars(yielded) = Chars(Expected(variant, Consumed))

\* C2: for a delivered text that holds a complete span, the concatenation of
\* everything yielded is the same for every chunking: it is what the pipe
\* yields when the text comes as one chunk.  The code violates it.
C2_SplitDelimiterSafety ==
    (StreamDone /\ FirstSpan(Consumed).found)
        => Chars(yielded) = Chars(RunPipe(variant, <<Consumed>>).yielded)

\* C3: when a text A + start + B + stop + C arrives as one chunk (the step
\* takes the upstream from no character to all of them), the output, that is
\* what is yielded by then and what the end of the stream will yield, is
\* A + C (remove) or A + wrapped B + C (hide).  The code violates it.
C3_SingleFullBlock ==
    [][(/\ pc = "stream" /\ pc' = "stream"
        /\ pos = 0 /\ pos' = Len(TextOf(text))
        /\ FirstSpan(TextOf(text)).found)
       => Chars(yielded' \o Concat(Flush(variant, buffer', thought_removed').yields))
              = Chars(Expected(variant, TextOf(text)))]_vars

\* a streamed request with thought removal disabled, in or after its loop
NoOpRun == stream /\ ~remove_thoughts /\ pc \in {"passthrough", "done"}

C5_EmissionOrder ==
    (stream /\ remove_thoughts /\ exc = "")
        => StrictlyIncreasing(UpstreamPositions(yielded))

\* the positions of the upstream characters yielded so far
YieldedPositions == {yielded[i].p : i \in 1..Len(yielded)}

\* the start delimiters of the whole upstream text, each as its set of positions
StartSpans ==
    {i..(ReMatch(start_thought, 1, TextOf(text), i) - 1) :
        i \in MatchesAt(start_thought, TextOf(text))}

\* C6: before the end of the stream, while a start delimiter of the upstream
\* text is delivered in part only (the input still to come completes it), no
\* character of it has been yielded.
C6_NoPartialStart ==
    (pc = "stream")
        => \A span \in StartSpans :
              (Min(span) <= pos /\ pos < Max(span))
                  => span \cap YieldedPositions = {}

\* C6 witness: text has been yielded while the buffer ends with the beginning
\* of a start delimiter that the input not yet delivered completes
C6_Witness ==
    /\ pc = "stream" /\ yielded # <<>> /\ ~StartSearch(buffer)
    /\ \E span \in StartSpans :
          /\ Min(span) < pos /\ pos < Max(span)
          /\ buffer # <<>> /\ buffer[Len(buffer)].p = pos

\* C7: when the stream has ended with a start delimiter in the buffer that
\* was never closed, the error event "thought never finished" was emitted
\* (and delivered, with a callback) and the whole buffer was yielded last.
C7_UnfinishedThought ==
    (StreamDone /\ StartSearch(buffer))
        => /\ error_update(NeverFinished) \in notes
           /\ has_emitter => error_update(NeverFinished) \in Delivered
           /\ Len(yielded) >= Len(buffer)
           /\ TakeLast(yielded, Len(buffer)) = buffer
           /\ thought_removed = 0 => yielded = Consumed

\* C7 witness: scenario C has returned, delivered whole
C7_Witness ==
    /\ StreamDone /\ StartSearch(buffer) /\ has_emitter
    /\ text = "ScenarioC" /\ pos = Len(TextOf(text))

\* C8: when no thought block was found the output is the input, the count is
\* 0 and "never found" is reported, and not with the error status.  The code
\* violates it.
C8_NeverFoundIsInformational ==
    (StreamDone /\ thought_removed = 0)
        => /\ yielded = Consumed
           /\ \E ev \in notes : ev.description = NeverFound
           /\ \A ev \in notes : ev.description = NeverFound => ev.status # "error"

\* a line that is skipped: the loop goes on with nothing changed
Skips(line) ==
    ReadLine(line)
        => /\ pc' = "stream"
           /\ UNCHANGED <<buffer, yielded, thought_removed, notes, exc>>

BeforeRequest == {"Api_key is empty", "Valve api_key is empty"}

C11_BufferedTextSurfaced ==
    (pc = "raised" /\ stream /\ remove_thoughts)
        => \A i \in 1..Len(buffer) : buffer[i].p \in YieldedPositions

\* the exceptions of the request: connection failure, raise_for_status, the
\* assertion on the status code
RequestFailures == {"HTTPError", "Error when creating requests: "}

\* C12: when the request has failed (no connection, or a status that is not
\* 200), the error event that carries the exception was emitted as the
\* latest event, the exception has propagated, and nothing was yielded.
C12_ConnectionFailure ==
    (exc \in RequestFailures)
        => /\ pc \in {"except", "raised"}
           /\ yielded = <<>> /\ pos = 0
           /\ pc = "raised"
                => /\ last_note = error_update(ErrorMsg(exc))
                   /\ has_emitter => error_update(ErrorMsg(exc)) \in Delivered

\* C12 witness: a failed request has propagated, with a callback
C12_Witness ==
    /\ pc = "raised" /\ exc \in RequestFailures /\ has_emitter
    /\ error_update(ErrorMsg(exc)) \in Delivered /\ yielded = <<>>

(***************************************************************************)
(* The filters.  A call of a filter function is one step: from the         *)
(* arguments in body to what it returns, or to the exception it raises.    *)
(***************************************************************************)
\* no pipe runs while a filter is called
NoPipe ==
    /\ variant = "none" /\ remove_thoughts = FALSE /\ has_emitter = FALSE
    /\ api_key_ok = FALSE /\ stream = FALSE /\ text = "none"
    /\ pos = 0 /\ pc = "none" /\ buffer = <<>> /\ thought_removed = 0
    /\ discarded = <<>> /\ yielded = <<>> /\ latest_message = NoMsg
    /\ clear_emitter = FALSE /\ notes = {} /\ last_note = NoEvent
    /\ exc = "" /\ skipped = 0 /\ raw_lines = 0

\* a call that returns value, a call that raises e
Returns(value) == returned' = [exc |-> "", value |-> value] /\ fpc' = "returned"
Raises(e) == returned' = [exc |-> e, value |-> <<>>] /\ fpc' = "raised"

(***************************************************************************)
(* filters/thinking_filter/thinking_filter.py and filters/hide_thinking.py *)
(***************************************************************************)
\* str.strip()
IsSpace(ch) == ch.c \in {" ", "NL"}
RECURSIVE LStrip(_)
LStrip(s) == IF s # <<>> /\ IsSpace(Head(s)) THEN LStrip(Tail(s)) ELSE s
RECURSIVE RStrip(_)
RStrip(s) == IF s # <<>> /\ IsSpace(s[Len(s)]) THEN RStrip(DropLast(s, 1)) ELSE s
Strip(s) == RStrip(LStrip(s))

\* Valves.start_thought_token, default: "^", three backquotes, " ?", "thinking"
start_thought_token ==
    <<"^", "BQ", "BQ", "BQ", " ", "?", "t", "h", "i", "n", "k", "i", "n", "g">>
\* Valves.end_thought_token, default: three backquotes
end_thought_token == <<"BQ", "BQ", "BQ">>

\* self.pattern, start_thought_token + "(.*?)" + end_thought_token with
\* DOTALL and MULTILINE, matched at index i of s: the index after the match,
\* 0 when there is none.  "^" is the start of a line, "(.*?)" runs to the
\* first end token.
PatternMatch(s, i) ==
    IF ~(i = 1 \/ s[i - 1].c = "NL") THEN 0
    ELSE LET e == ReMatch(Tail(start_thought_token), 1, s, i)
             ends == {k \in MatchesAt(end_thought_token, s) : k >= e}
         IN  IF e = 0 \/ ends = {} THEN 0
             ELSE Min(ends) + Len(end_thought_token)

\* self.pattern.search(s) is not None
FilterPatternSearch(s) == \E i \in 1..Len(s) : PatternMatch(s, i) # 0

\* self.pattern.sub("", s)
RECURSIVE FilterPatternSub(_, _)
FilterPatternSub(s, i) ==
    IF i > Len(s) THEN <<>>
    ELSE LET e == PatternMatch(s, i)
         IN  IF e # 0 THEN FilterPatternSub(s, e)
             ELSE <<s[i]>> \o FilterPatternSub(s, i + 1)

\* self.converted_pattern of filters/hide_thinking.py, without DOTALL:
\* "<details>", white space, "<summary>Reasonning</summary>", the fewest
\* characters of one line, "</details>"; the two tags and the summary are
\* one token each
ConvertedMatch(s, i) ==
    IF s[i].c # "<details>" THEN 0
    ELSE LET j == Min({k \in (i + 1)..(Len(s) + 1) :
                          k > Len(s) \/ ~IsSpace(s[k])})
             closes == {k \in (j + 1)..Len(s) :
                           /\ s[k].c = "</details>"
                           /\ \A q \in (j + 1)..(k - 1) : s[q].c # "NL"}
         IN  IF j > Len(s) \/ s[j].c # "<summary>Reasonning</summary>"
                \/ closes = {}
             THEN 0 ELSE Min(closes) + 1

ConvertedSearch(s) == \E i \in 1..Len(s) : ConvertedMatch(s, i) # 0

RECURSIVE ConvertedSub(_, _)
ConvertedSub(s, i) ==
    IF i > Len(s) THEN <<>>
    ELSE LET e == ConvertedMatch(s, i)
         IN  IF e # 0 THEN ConvertedSub(s, e)
             ELSE <<s[i]>> \o ConvertedSub(s, i + 1)

\* Filter.remove_thought of the two files: [exc, value]
remove_thought(f, t) ==
    IF f = "thinking_filter"
    THEN [exc |-> "", value |-> FilterPatternSub(t, 1)]
    ELSE IF ~(FilterPatternSearch(t) \/ ConvertedSearch(t))
    THEN [exc |-> "", value |-> t]
    ELSE IF Strip(t) = <<>>
    THEN [exc |-> "Received empty text", value |-> <<>>]
    ELSE IF Strip(FilterPatternSub(t, 1)) = <<>>
    THEN [exc |-> "Empty text after step 1 of thought removal", value |-> <<>>]
    ELSE IF Strip(ConvertedSub(t, 1)) = <<>>
    THEN [exc |-> "Empty text after step 2 of thought removal", value |-> <<>>]
    ELSE [exc |-> "", value |-> Strip(ConvertedSub(t, 1))]

\* Filter.outlet of the two files, on the content of the last message:
\* [exc, value], value the content of the last message at the return
thinking_outlet(f, enable, last_message) ==
    IF ~enable THEN [exc |-> "", value |-> last_message]
    ELSE IF ~FilterPatternSearch(last_message)
    THEN [exc |-> "", value |-> last_message]
    ELSE LET old == Strip(last_message)
             r == remove_thought(f, old)
             new == Strip(r.value)
         IN  IF r.exc # "" THEN r
             ELSE IF new = <<>> /\ old # <<>> THEN [exc |-> "", value |-> old]
             ELSE IF old # new THEN [exc |-> "", value |-> new]
             ELSE [exc |-> "", value |-> last_message]

\* the last messages the thinking filters are called with
Thought == <<"BQ", "BQ", "BQ", "t", "h", "i", "n", "k", "i", "n", "g", "x",
             "BQ", "BQ", "BQ">>
Details == <<"<details>", "NL", "<summary>Reasonning</summary>", "r",
             "</details>">>
LastMessages ==
    {Tag(Thought), Tag(<<"NL">> \o Thought \o <<"NL">>),
     Tag(Thought \o <<"h", "i">>), Tag(<<"h", "i">>),
     Tag(<<"a">> \o Thought), Tag(Thought \o Details),
     Tag(Thought \o <<"NL">> \o Thought), Tag(<<" ">>),
     Tag(<<"h", "i", "NL">> \o Thought \o <<" ">>)}

ThinkingFilters == {"thinking_filter", "hide_thinking"}

ThinkingInputs == [enable : BOOLEAN, last_message : LastMessages]

ThinkingOutlet ==
    /\ filter \in ThinkingFilters /\ fpc = "call"
    /\ LET r == thinking_outlet(filter, body.enable, body.last_message)
       IN  IF r.exc = "" THEN Returns(r.value) ELSE Raises(r.exc)
    /\ UNCHANGED <<filter, body, pipeVars, cardVars, runVars, traceVars, inletVars>>

(***************************************************************************)
(* Chat messages, as the filters below receive them in body["messages"].   *)
(* A message is [id, role, content]: id stands for the identity of the     *)
(* dict, role is "" when the key is missing.  A content is a str (kind     *)
(* "str", text) or a list of items (kind "list", items), an item a text    *)
(* item or an image.  A text is a sequence of tokens, "NL" the newline.    *)
(***************************************************************************)
StrContent(t) == [kind |-> "str", text |-> t, items |-> <<>>]
ListContent(items) == [kind |-> "list", text |-> <<>>, items |-> items]
TextItem(t) == [type |-> "text", text |-> t]
ImageItem == [type |-> "image_url", text |-> <<>>]

\* the messages of the given kinds, numbered in order
Numbered(kinds) ==
    [i \in 1..Len(kinds) |->
        [id |-> i, role |-> kinds[i].role, content |-> kinds[i].content]]

\* all sequences over S of length at most n
SeqsUpTo(S, n) == UNION {[1..k -> S] : k \in 0..n}

Ids(messages) == [i \in 1..Len(messages) |-> messages[i].id]
IsSystem(m) == m.role = "system"
NotSystem(m) == m.role # "system"

\* python s[-n:] for n > 0
LastN(s, n) == IF n >= Len(s) THEN s ELSE TakeLast(s, n)

(***************************************************************************)
(* filters/infinite_chat.py                                                *)
(***************************************************************************)
\* the one line that Valves.preserve_regex, when set, matches
KeepLine == "keep me"

\* pattern.search(line) over content.split("NL"), findall(line)[0] of the
\* first line that matches: "" when no line matches
FirstMatch(t) ==
    LET at == {i \in 1..Len(t) : t[i] = KeepLine}
    IN  IF at = {} THEN "" ELSE t[Min(at)]

\* Filter._content_has_pattern: the match, "" for False
_content_has_pattern(content) ==
    IF content.kind = "str" THEN FirstMatch(content.text)
    ELSE LET vals == [i \in 1..Len(content.items) |->
                         IF content.items[i].type # "text" THEN ""
                         ELSE FirstMatch(content.items[i].text)]
             hits == {i \in 1..Len(vals) : vals[i] # ""}
         IN  IF hits = {} THEN "" ELSE vals[Min(hits)]

\* Filter._preserve_regex_content: [exc, value]
_preserve_regex_content(messages) ==
    LET ok(v) == [exc |-> "", value |-> v]
        users == {i \in 1..Len(messages) : messages[i].role = "user"}
    IN  IF users = {} THEN ok(messages)
        ELSE
        LET latest == Max(users)
            latest_content == messages[latest].content
            older == {i \in users : i < latest
                                    /\ _content_has_pattern(messages[i].content) # ""}
            match == IF older = {} THEN ""
                     ELSE _content_has_pattern(messages[Max(older)].content)
            texts == {i \in 1..Len(latest_content.items) :
                         latest_content.items[i].type = "text"}
        IN  IF _content_has_pattern(latest_content) # "" THEN ok(messages)
            ELSE IF match = "" THEN ok(messages)
            ELSE IF latest_content.kind = "str"
            THEN ok([messages EXCEPT ![latest].content.text =
                        <<match, "NL">> \o latest_content.text])
            ELSE IF texts = {}
            THEN [exc |-> "UnboundLocalError: latest_content_str", value |-> <<>>]
            ELSE ok([messages EXCEPT ![latest].content.items[Min(texts)].text =
                        <<match, "NL">> \o latest_content.items[Min(texts)].text])

\* mutant of EffectiveKeep: no minimum of 2
EffectiveKeepAsGiven(keep_messages) == keep_messages

\* "if keep < 2: keep = 2"
EffectiveKeep(keep_messages) == IF keep_messages < 2 THEN 2 ELSE keep_messages

\* Filter.inlet: [exc, value], value is body["messages"] at the return
infinite_chat_inlet(keep_messages, preserve_regex, messages) ==
    LET keep == EffectiveKeep(keep_messages)
        sys_message == SelectSeq(messages, IsSystem)
        non_system_messages == SelectSeq(messages, NotSystem)
        r == IF preserve_regex /\ Len(non_system_messages) > keep
             THEN _preserve_regex_content(non_system_messages)
             ELSE [exc |-> "", value |-> non_system_messages]
    IN  IF r.exc # "" THEN r
        ELSE [exc |-> "", value |-> sys_message \o LastN(r.value, keep)]

\* the roles and contents of the messages InfiniteChat is called with
InfiniteChatKinds ==
    {[role |-> "system", content |-> StrContent(<<"s">>)],
     [role |-> "user", content |-> StrContent(<<"x">>)],
     [role |-> "user", content |-> StrContent(<<"x", "NL", KeepLine>>)],
     [role |-> "user", content |-> ListContent(<<ImageItem>>)],
     [role |-> "user", content |-> ListContent(<<ImageItem, TextItem(<<"x">>)>>)],
     [role |-> "assistant", content |-> StrContent(<<"a">>)],
     [role |-> "", content |-> StrContent(<<"n">>)]}

\* the longest chat InfiniteChat is called with
MaxChat == 4
\* the largest Valves.keep_messages
MaxKeep == 3

InfiniteChatInputs ==
    [keep_messages : 1..MaxKeep, preserve_regex : BOOLEAN,
     messages : {Numbered(k) : k \in SeqsUpTo(InfiniteChatKinds, MaxChat)}]

InfiniteChatInlet ==
    /\ filter = "infinite_chat" /\ fpc = "call"
    /\ LET r == infinite_chat_inlet(body.keep_messages, body.preserve_regex,
                                    body.messages)
       IN  IF r.exc = "" THEN Returns(r.value) ELSE Raises(r.exc)
    /\ UNCHANGED <<filter, body, pipeVars, cardVars, runVars, traceVars, inletVars>>

(***************************************************************************)
(* filters/warn_if_long_chat.py                                            *)
(***************************************************************************)
\* Valves.exempted_users is a str: its entries between commas, each a name
\* with or without white space around it ("" for an empty entry)
Entry(name, padded) == [name |-> name, padded |-> padded]

\* [user.strip() for user in exempted_users.split(',') if user.strip()]
exempted_users_list(entries) ==
    {entries[i].name : i \in {k \in 1..Len(entries) : entries[k].name # ""}}

\* mutant of ExceedsHardLimit: ">=" for ">"
ReachesHardLimit(n, limit) == n >= limit

\* len(body["messages"]) > self.valves.number_of_message_hard_limit
ExceedsHardLimit(n, limit) == n > limit

\* Filter.inlet: [exc, value, warned]; user_name is "" when __user__ is None
\* or has no name
warn_inlet(user_name, entries, number_of_message, hard_limit, messages) ==
    IF user_name # "" /\ user_name \in exempted_users_list(entries)
    THEN [exc |-> "", value |-> messages]
    ELSE IF ExceedsHardLimit(Len(messages), hard_limit)
    THEN [exc |-> "I refuse to answer to chats with more than hard_limit messages",
          value |-> <<>>]
    ELSE [exc |-> "", value |-> messages]

\* the longest chat WarnIfLongChat is called with
MaxWarnChat == 8

\* values of the valves number_of_message and number_of_message_hard_limit
\* that on_valves_updated accepts
SoftLimits == {3, 5}
HardLimits == {6, 7}

WarnInputs ==
    [user_name : {"", "alice", "bob"},
     exempted_users : {<<>>, <<Entry("alice", FALSE)>>,
                       <<Entry("", TRUE), Entry("bob", TRUE)>>,
                       <<Entry("alice", TRUE), Entry("bob", FALSE)>>},
     number_of_message : SoftLimits,
     number_of_message_hard_limit : HardLimits,
     messages : {[i \in 1..n |-> i] : n \in 0..MaxWarnChat}]

WarnInlet ==
    /\ filter = "warn_if_long_chat" /\ fpc = "call"
    /\ LET r == warn_inlet(body.user_name, body.exempted_users,
                           body.number_of_message,
                           body.number_of_message_hard_limit, body.messages)
       IN  IF r.exc = "" THEN Returns(r.value) ELSE Raises(r.exc)
    /\ UNCHANGED <<filter, body, pipeVars, cardVars, runVars, traceVars, inletVars>>

(***************************************************************************)
(* filters/combine_user_messages.py                                        *)
(***************************************************************************)
\* str.strip() of a text of tokens
RECURSIVE StripLeft(_)
StripLeft(t) ==
    IF t # <<>> /\ Head(t) \in {" ", "NL"} THEN StripLeft(Tail(t)) ELSE t
RECURSIVE StripRight(_)
StripRight(t) ==
    IF t # <<>> /\ t[Len(t)] \in {" ", "NL"} THEN StripRight(DropLast(t, 1)) ELSE t
StripText(t) == StripRight(StripLeft(t))

\* sep.join(texts)
RECURSIVE Join(_, _)
Join(sep, texts) ==
    IF texts = <<>> THEN <<>>
    ELSE IF Len(texts) = 1 THEN texts[1]
    ELSE texts[1] \o sep \o Join(sep, Tail(texts))

\* Valves.message_separator, default "NLNL---NLNL", as one token
message_separator == <<"NLNL---NLNL">>

IsTextItem(item) == item.type = "text"
IsMediaItem(item) == item.type \in {"image_url", "file"}

\* Filter._extract_content_text
_extract_content_text(content) ==
    IF content.kind = "str" THEN content.text
    ELSE LET parts == SelectSeq(content.items, IsTextItem)
         IN  Join(<<" ">>, [i \in 1..Len(parts) |-> parts[i].text])

\* Filter._extract_files_and_images
_extract_files_and_images(content) ==
    IF content.kind = "str" THEN <<>> ELSE SelectSeq(content.items, IsMediaItem)

\* the loop of Filter._combine_user_messages over the messages:
\* [combined_messages, user_texts, all_files_and_images]
RECURSIVE CombineLoop(_, _)
CombineLoop(messages, acc) ==
    IF messages = <<>> THEN acc
    ELSE LET message == Head(messages)
             user_text == _extract_content_text(message.content)
         IN  CombineLoop(Tail(messages),
                 IF message.role = "system"
                 THEN [acc EXCEPT !.combined_messages = @ \o <<message>>]
                 ELSE IF message.role = "user"
                 THEN [acc EXCEPT
                          !.user_texts = IF StripText(user_text) # <<>>
                                         THEN @ \o <<StripText(user_text)>> ELSE @,
                          !.all_files_and_images =
                              @ \o _extract_files_and_images(message.content)]
                 ELSE acc)

\* Filter._combine_user_messages; the message it creates has id 0
_combine_user_messages(messages) ==
    LET acc == CombineLoop(messages,
                   [combined_messages |-> <<>>, user_texts |-> <<>>,
                    all_files_and_images |-> <<>>])
        combined_text == Join(message_separator, acc.user_texts)
        combined_content ==
            (IF acc.user_texts # <<>> THEN <<TextItem(combined_text)>> ELSE <<>>)
                \o acc.all_files_and_images
        content == IF Len(combined_content) = 1 /\ combined_content[1].type = "text"
                   THEN StrContent(combined_content[1].text)
                   ELSE ListContent(combined_content)
    IN  IF acc.user_texts # <<>> \/ acc.all_files_and_images # <<>>
        THEN acc.combined_messages
                \o <<[id |-> 0, role |-> "user", content |-> content]>>
        ELSE acc.combined_messages

\* Filter.inlet: body["messages"] at the return
combine_inlet(enabled, user_enabled, messages) ==
    IF ~enabled \/ ~user_enabled \/ messages = <<>> THEN messages
    ELSE _combine_user_messages(messages)

CountRole(messages, role) ==
    Cardinality({i \in 1..Len(messages) : messages[i].role = role})

\* the assertions of Filter.outlet: whether all of them hold
outlet_validation(messages) ==
    LET system_count == CountRole(messages, "system")
        user_count == CountRole(messages, "user")
        assistant_count == CountRole(messages, "assistant")
        expected_total == IF system_count = 0 THEN 2 ELSE 3
    IN  /\ Len(messages) = expected_total
        /\ user_count = 1
        /\ assistant_count = 1
        /\ system_count <= 1

\* the roles and contents of the messages CombineUserMessages is called with
CombineKinds ==
    {[role |-> "system", content |-> StrContent(<<"s">>)],
     [role |-> "user", content |-> StrContent(<<"x", " ">>)],
     [role |-> "user", content |-> StrContent(<<" ", "NL">>)],
     [role |-> "user", content |-> ListContent(<<ImageItem>>)],
     [role |-> "user", content |-> ListContent(<<TextItem(<<"y">>), ImageItem,
                                                  TextItem(<<"z">>)>>)],
     [role |-> "assistant", content |-> StrContent(<<"a">>)]}

CombineInputs ==
    [enabled : BOOLEAN, user_enabled : BOOLEAN,
     messages : {Numbered(k) : k \in SeqsUpTo(CombineKinds, MaxChat)}]

CombineInlet ==
    /\ filter = "combine_user_messages" /\ fpc = "call"
    /\ Returns(combine_inlet(body.enabled, body.user_enabled, body.messages))
    /\ UNCHANGED <<filter, body, pipeVars, cardVars, runVars, traceVars, inletVars>>

(***************************************************************************)
(* filters/anki_deck_creator_filter.py                                     *)
(***************************************************************************)
\* A text of this filter is a sequence of tokens: "NL" is a line feed, "---"
\* the rule, and the two literals of info_pattern are one token each.
InfoHead == "Flashcards formatted successfully!"
InfoTail == "Click the 'Generate Anki Deck' action button ... .apkg file."

\* info_msg, the text Filter.outlet appends to the last assistant message
info_msg(new_cards, total_cards) ==
    <<"NL", "NL", "---", "NL", "NL", InfoHead, "NL", "NL",
      "New cards in this response: ", ToString(new_cards), "NL",
      "Total cards in conversation: ", ToString(total_cards), "NL", "NL",
      InfoTail, "NL">>

\* the index after the line feeds that start at index i of s
RECURSIVE SkipNL(_, _)
SkipNL(s, i) == IF i <= Len(s) /\ s[i] = "NL" THEN SkipNL(s, i + 1) ELSE i

\* info_pattern matched at index i of s, the index after the match or 0:
\* "NL+ --- NL+ head .*? tail NL*" with DOTALL; the line feeds are taken
\* greedily, ".*?" runs to the first tail
InfoMatch(s, i) ==
    LET rule == SkipNL(s, i)
        head == SkipNL(s, rule + 1)
        tails == {k \in (head + 1)..Len(s) : s[k] = InfoTail}
    IN  IF rule = i \/ rule > Len(s) \/ s[rule] # "---" THEN 0
        ELSE IF head = rule + 1 \/ head > Len(s) \/ s[head] # InfoHead THEN 0
        ELSE IF tails = {} THEN 0
        ELSE SkipNL(s, Min(tails) + 1)

\* re.sub(info_pattern, "", text, flags=re.DOTALL)
RECURSIVE InfoSub(_, _)
InfoSub(s, i) ==
    IF i > Len(s) THEN <<>>
    ELSE IF InfoMatch(s, i) # 0 THEN InfoSub(s, InfoMatch(s, i))
    ELSE <<s[i]>> \o InfoSub(s, i + 1)
RemoveInfo(t) == InfoSub(t, 1)

\* the first loop of Filter.inlet: the info blocks removed from one content
CleanContent(content) ==
    IF content.kind = "str" THEN StrContent(RemoveInfo(content.text))
    ELSE ListContent([i \in 1..Len(content.items) |->
            IF content.items[i].type = "text"
            THEN TextItem(RemoveInfo(content.items[i].text))
            ELSE content.items[i]])

CleanMessages(messages) ==
    [i \in 1..Len(messages) |->
        [messages[i] EXCEPT !.content = CleanContent(@)]]

\* "NLNL---" + generate_flashcard_instruction(fields_desc)
Instruction == <<"NL", "NL", "---", "INSTRUCTION">>

\* the instruction appended to the first system message, or a new system
\* message (id 0) inserted at the beginning
AddInstruction(messages) ==
    LET at == {i \in 1..Len(messages) : messages[i].role = "system"}
    IN  IF at = {}
        THEN <<[id |-> 0, role |-> "system",
                content |-> StrContent(<<"INSTRUCTION">>)]>> \o messages
        ELSE [i \in 1..Len(messages) |->
                 IF i # Min(at) THEN messages[i]
                 ELSE [messages[i] EXCEPT !.content =
                          IF @.kind = "str" THEN StrContent(@.text \o Instruction)
                          ELSE ListContent(@.items \o <<TextItem(Instruction)>>)]]

\* a second line that the pattern of Valves.regex_keeper matches
KeepLineToo == "keep me too"

\* content.splitlines() with each line stripped: a text is lines (one token
\* each) separated by "NL"
ContentLines(content) ==
    LET t == IF content.kind = "str" THEN content.text
             ELSE Join(<<"NL">>,
                      LET parts == SelectSeq(content.items, IsTextItem)
                      IN  [i \in 1..Len(parts) |-> parts[i].text])
    IN  SelectSeq(t, LAMBDA tok : tok # "NL")

\* Filter._extract_matched_values for the one pattern of regex_keeper: the
\* last line of the user messages that matches, <<>> when none does
RECURSIVE _extract_matched_values(_, _)
_extract_matched_values(messages, matched) ==
    IF messages = <<>> THEN matched
    ELSE LET message == Head(messages)
             hits == SelectSeq(ContentLines(message.content),
                               LAMBDA l : l \in {KeepLine, KeepLineToo})
         IN  _extract_matched_values(Tail(messages),
                 IF message.role = "user" /\ hits # <<>>
                 THEN <<hits[Len(hits)]>> ELSE matched)

\* prepend_text + "NLNL" put in front of the content of a message
Prepend(prepend_text, message) ==
    [message EXCEPT !.content =
        IF @.kind = "str" THEN StrContent(prepend_text \o <<"NL", "NL">> \o @.text)
        ELSE ListContent(<<TextItem(prepend_text \o <<"NL", "NL">>)>> \o @.items)]

\* conversation_messages[-n:], which is the whole list for n = 0
KeptSliceOnly(conversation_messages, n) ==
    IF n = 0 THEN conversation_messages ELSE LastN(conversation_messages, n)

\* "if n == 0: kept_messages = [] else: kept_messages = conversation_messages[-n:]"
Kept(conversation_messages, n) ==
    IF n = 0 THEN <<>> ELSE LastN(conversation_messages, n)

\* Filter._keep_last_n_messages for n >= 0
_keep_last_n_messages(messages, n, prepend_text) ==
    LET system_messages == SelectSeq(messages, IsSystem)
        conversation_messages == SelectSeq(messages, NotSystem)
        kept_messages == Kept(conversation_messages, n)
        k == Len(kept_messages)
    IN  system_messages \o
        (IF prepend_text # <<>> /\ kept_messages # <<>>
         THEN [kept_messages EXCEPT ![k] = Prepend(prepend_text, @)]
         ELSE kept_messages)

\* Filter.inlet: body["messages"] at the return.  mode is "ok", "disabled"
\* (the user valve) or "bad_fields" (fields_description is no JSON);
\* n < 0 makes _keep_last_n_messages raise ValueError, which the inlet
\* catches and logs
deck_inlet(mode, n, regex_keeper, messages) ==
    LET cleaned == CleanMessages(messages)
        instructed == AddInstruction(cleaned)
        has_current == instructed[Len(instructed)].role = "user"
        messages_without_current ==
            IF has_current THEN DropLast(instructed, 1) ELSE instructed
        prepend_text ==
            IF regex_keeper
            THEN _extract_matched_values(messages_without_current, <<>>)
            ELSE <<>>
        filtered_messages ==
            _keep_last_n_messages(messages_without_current, n,
                                  IF n > 0 THEN prepend_text ELSE <<>>)
        current_user_msg ==
            IF prepend_text # <<>> /\ n = 0
            THEN Prepend(prepend_text, instructed[Len(instructed)])
            ELSE instructed[Len(instructed)]
    IN  IF mode = "disabled" THEN messages
        ELSE IF mode = "bad_fields" THEN cleaned
        ELSE IF n < 0 THEN instructed
        ELSE IF has_current THEN filtered_messages \o <<current_user_msg>>
        ELSE filtered_messages

DeckKinds ==
    {[role |-> "system", content |-> StrContent(<<"s">>)],
     [role |-> "user", content |-> StrContent(<<"q">>)],
     [role |-> "user", content |-> StrContent(<<KeepLine, "NL", "q">>)],
     [role |-> "user", content |-> ListContent(<<ImageItem, TextItem(<<KeepLineToo>>)>>)],
     [role |-> "assistant", content |-> StrContent(<<"a">> \o info_msg(1, 1))]}

\* the longest chat the deck creator is called with
MaxDeckChat == 4
\* the largest Valves.N_messages_to_keep
MaxDeckKeep == 2

DeckModes == {"ok", "disabled", "bad_fields"}

DeckInputs ==
    [mode : DeckModes, n : -1..MaxDeckKeep, regex_keeper : BOOLEAN,
     messages : {Numbered(k) : k \in SeqsUpTo(DeckKinds, MaxDeckChat)}]

DeckInlet ==
    /\ filter = "anki_deck_creator_filter" /\ fpc = "call"
    /\ Returns(deck_inlet(body.mode, body.n, body.regex_keeper, body.messages))
    /\ UNCHANGED <<filter, body, pipeVars, cardVars, runVars, traceVars, inletVars>>

(***************************************************************************)
(* filters/DontAccumulateThoughts.py                                       *)
(***************************************************************************)
\* Valves.thinking_pattern, default "<thinking>.*?</thinking>": its two
\* literals, character by character
thinking_open == <<"<", "t", "h", "i", "n", "k", "i", "n", "g", ">">>
thinking_close == <<"<", "/", "t", "h", "i", "n", "k", "i", "n", "g", ">">>

\* self.thinking_regex (DOTALL) matched at index i of s: the index after the
\* match, 0 when there is none; ".*?" runs to the first "</thinking>"
ThinkingMatch(s, i) ==
    LET e == ReMatch(thinking_open, 1, s, i)
        ends == {k \in MatchesAt(thinking_close, s) : k >= e}
    IN  IF e = 0 \/ ends = {} THEN 0
        ELSE Min(ends) + Len(thinking_close)

\* self.thinking_regex.search(s) is not None
ThinkingSearch(s) == \E i \in 1..Len(s) : ThinkingMatch(s, i) # 0

\* self.thinking_regex.sub("", s): one pass from left to right
RECURSIVE ThinkingSub(_, _)
ThinkingSub(s, i) ==
    IF i > Len(s) THEN <<>>
    ELSE LET e == ThinkingMatch(s, i)
         IN  IF e # 0 THEN ThinkingSub(s, e)
             ELSE <<s[i]>> \o ThinkingSub(s, i + 1)

\* Filter.filter_content on a str
FilterText(t) == IF t = <<>> THEN t ELSE Strip(ThinkingSub(t, 1))

\* Filter.filter_content
filter_content(content) ==
    IF content.kind = "str" THEN StrContent(FilterText(content.text))
    ELSE ListContent([i \in 1..Len(content.items) |->
            IF content.items[i].type # "text" THEN content.items[i]
            ELSE TextItem(FilterText(content.items[i].text))])

\* Filter.inlet: body["messages"] at the return
thoughts_inlet(messages) ==
    [i \in 1..Len(messages) |->
        IF messages[i].role # "assistant" THEN messages[i]
        ELSE [id |-> messages[i].id, role |-> messages[i].role,
              content |-> filter_content(messages[i].content)]]

\* "<thinking>x</thinking>"
ThinkingBlock == thinking_open \o <<"x">> \o thinking_close
\* "<thin" and "king>y</thinking>" around a block
SplitBlock ==
    Take(thinking_open, 5) \o ThinkingBlock \o Drop(thinking_open, 5)
        \o <<"y">> \o thinking_close

ThoughtKinds ==
    {[role |-> "system", content |-> StrContent(Lit(ThinkingBlock \o <<"s">>))],
     [role |-> "user", content |-> StrContent(Lit(<<" ">> \o ThinkingBlock))],
     [role |-> "assistant", content |-> StrContent(Lit(<<" ", "a", "NL">>))],
     [role |-> "assistant",
      content |-> StrContent(Lit(ThinkingBlock \o <<"a">> \o thinking_open
                                  \o <<"NL", "b", "NL">> \o thinking_close))],
     [role |-> "assistant", content |-> StrContent(Lit(SplitBlock \o <<"z">>))],
     [role |-> "assistant",
      content |-> ListContent(<<ImageItem,
                                TextItem(Lit(<<"c">> \o ThinkingBlock))>>)]}

\* the longest chat DontAccumulateThoughts is called with
MaxThoughtChat == 3

ThoughtInputs ==
    [messages : {Numbered(k) : k \in SeqsUpTo(ThoughtKinds, MaxThoughtChat)}]

ThoughtsInlet ==
    /\ filter = "DontAccumulateThoughts" /\ fpc = "call"
    /\ Returns(thoughts_inlet(body.messages))
    /\ UNCHANGED <<filter, body, pipeVars, cardVars, runVars, traceVars, inletVars>>

FilterNames ==
    ThinkingFilters
        \cup {"infinite_chat", "warn_if_long_chat", "combine_user_messages",
              "anki_deck_creator_filter", "DontAccumulateThoughts"}

Inputs(f) ==
    CASE f \in ThinkingFilters -> ThinkingInputs
      [] f = "infinite_chat" -> InfiniteChatInputs
      [] f = "warn_if_long_chat" -> WarnInputs
      [] f = "combine_user_messages" -> CombineInputs
      [] f = "anki_deck_creator_filter" -> DeckInputs
      [] f = "DontAccumulateThoughts" -> ThoughtInputs

FiltersInit ==
    /\ NoPipe /\ NoCards /\ NoRuns /\ NoTraces /\ NoInlets
    /\ \E f \in FilterNames : filter = f /\ body \in Inputs(f)
    /\ returned = <<>>
    /\ fpc = "call"

FiltersNext ==
    \/ ThinkingOutlet
    \/ InfiniteChatInlet
    \/ WarnInlet
    \/ CombineInlet
    \/ DeckInlet
    \/ ThoughtsInlet

SpecFilters == FiltersInit /\ [][FiltersNext]_vars

(***************************************************************************)
(* filters/anki_db_creator.py: calls of Filter.outlet on one Filter         *)
(* instance, which overlap where the coroutine is suspended.               *)
(***************************************************************************)
\* how many calls of outlet
MaxOutlets == 3
OutletCalls == 1..MaxOutlets
ChatIds == {"chat1", "chat2"}

\* json.loads(json_matches[0]) of the last assistant message: no <json> tag
\* ("none", the outlet returns early), or a list of two cards
NewCards(c, reply) ==
    IF reply = "none" THEN <<>>
    ELSE <<[call |-> c, k |-> 1], [call |-> c, k |-> 2]>>

\* Valves.debug of the Anki DB Creator: "await self.log(...)" with level
\* info reaches the callback only when it is set
CardsInputs ==
    [chat_id : ChatIds, reply : {"none", "json"}, has_emitter : BOOLEAN,
     debug : BOOLEAN]

CardsInit ==
    /\ NoPipe /\ NoFilter /\ NoRuns /\ NoTraces /\ NoInlets
    /\ cards = [ch \in ChatIds |-> <<>>]
    /\ \E d \in BOOLEAN :
          outlets \in [OutletCalls ->
              {[in |-> i, pc |-> "start", existing_cards |-> <<>>] :
                  i \in {j \in CardsInputs : j.debug = d}}]
    /\ self_emitter = FALSE

\* "await self.log(message)" suspends the coroutine when the valve debug is
\* set and self.emitter has a callback
LogSuspends(call, emitter_set) == call.in.debug /\ emitter_set

\* Filter._load_existing_cards
_load_existing_cards(chat_id) == cards[chat_id]

\* Filter._save_cards
_save_cards(chat_id, all_cards) ==
    cards' = [ch \in ChatIds |-> IF ch = chat_id THEN all_cards ELSE cards[ch]]

SetCall(c, call) ==
    outlets' = [d \in OutletCalls |-> IF d = c THEN call ELSE outlets[d]]

\* outlet from its start: self.emitter is replaced; a reply without <json>
\* returns; else the call runs to the first log that suspends it, or, when
\* no log suspends it, to the end
OutletBegin(c) ==
    LET call == outlets[c]
        new_cards == NewCards(c, call.in.reply)
    IN  /\ call.pc = "start"
        /\ self_emitter' = call.in.has_emitter
        /\ IF call.in.reply = "none"
           THEN SetCall(c, [call EXCEPT !.pc = "done"]) /\ UNCHANGED cards
           ELSE IF LogSuspends(call, call.in.has_emitter)
           THEN SetCall(c, [call EXCEPT !.pc = "extracted"]) /\ UNCHANGED cards
           ELSE /\ _save_cards(call.in.chat_id,
                               _load_existing_cards(call.in.chat_id) \o new_cards)
                /\ SetCall(c, [call EXCEPT !.pc = "done"])
        /\ UNCHANGED <<pipeVars, filterVars, runVars, traceVars, inletVars>>

\* "existing_cards = self._load_existing_cards(__chat_id__)", then
\* "await self.log(f'Total cards: ...')": the call is suspended there, or
\* goes on to _save_cards at once
OutletLoad(c) ==
    LET call == outlets[c]
        existing_cards == _load_existing_cards(call.in.chat_id)
    IN  /\ call.pc = "extracted"
        /\ IF LogSuspends(call, self_emitter)
           THEN /\ SetCall(c, [call EXCEPT !.pc = "loaded",
                                           !.existing_cards = existing_cards])
                /\ UNCHANGED cards
           ELSE /\ _save_cards(call.in.chat_id,
                               existing_cards \o NewCards(c, call.in.reply))
                /\ SetCall(c, [call EXCEPT !.pc = "done"])
        /\ UNCHANGED <<self_emitter, pipeVars, filterVars, runVars, traceVars, inletVars>>

\* "all_cards = existing_cards + new_cards" saved after the log has resumed
OutletSave(c) ==
    LET call == outlets[c]
    IN  /\ call.pc = "loaded"
        /\ _save_cards(call.in.chat_id,
                       call.existing_cards \o NewCards(c, call.in.reply))
        /\ SetCall(c, [call EXCEPT !.pc = "done"])
        /\ UNCHANGED <<self_emitter, pipeVars, filterVars, runVars, traceVars, inletVars>>

CardsNext ==
    \/ \E c \in OutletCalls : OutletBegin(c)
    \/ \E c \in OutletCalls : OutletLoad(c)
    \/ \E c \in OutletCalls : OutletSave(c)

SpecCards == CardsInit /\ [][CardsNext]_vars

\* the last message is not empty and holds a thought span whose removal
\* leaves nothing but white space
EmptyAfterStrip(t) ==
    /\ Strip(t) # <<>>
    /\ FilterPatternSearch(t)
    /\ Strip(FilterPatternSub(Strip(t), 1)) = <<>>

\* C14: when the enabled outlet of a thinking filter is called with a last
\* message that is not empty and that the removal of its thought spans
\* would leave empty, it returns, and the content of the message is the
\* original text.  The code violates it.
C14_NeverEmptyAfterStrip ==
    (filter \in ThinkingFilters /\ fpc # "call" /\ body.enable
     /\ EmptyAfterStrip(body.last_message))
        => fpc = "returned" /\ returned.value = body.last_message

\* the messages kept: their ids, in order
KeptIds(messages, keep) ==
    Ids(SelectSeq(messages, IsSystem)) \o LastN(Ids(SelectSeq(messages, NotSystem)), keep)

\* C16: after InfiniteChat.inlet has returned, the messages of the body are
\* the system messages of the input followed by its last
\* max(keep_messages, 2) other messages (all when there are fewer), in their
\* order, and no other; without preserve_regex they are unchanged.
C16_InfiniteChatKeepsLast ==
    (filter = "infinite_chat" /\ fpc = "returned")
        => LET keep == Max({body.keep_messages, 2})
           IN  /\ Ids(returned.value) = KeptIds(body.messages, keep)
               /\ \A i \in 1..Len(returned.value) :
                     returned.value[i].role
                         = body.messages[returned.value[i].id].role
               /\ ~body.preserve_regex
                     => returned.value
                          = SelectSeq(body.messages, IsSystem)
                              \o LastN(SelectSeq(body.messages, NotSystem), keep)

\* C16 witness: keep_messages is 1, the chat has 3 messages that are not
\* system messages and a system message after the first of them; 2 are kept
\* behind the system message
C16_Witness ==
    /\ filter = "infinite_chat" /\ fpc = "returned"
    /\ body.keep_messages = 1
    /\ Len(body.messages) = 4 /\ body.messages[2].role = "system"
    /\ Len(SelectSeq(body.messages, NotSystem)) = 3
    /\ Ids(returned.value) = <<2, 3, 4>>

\* the user's name is one of the names listed in the valve exempted_users
Exempted ==
    \E i \in 1..Len(body.exempted_users) :
        body.user_name # "" /\ body.exempted_users[i].name = body.user_name

\* C17: the inlet of WarnIfLongChat raises exactly when the user is not
\* exempted and the chat has more messages than
\* number_of_message_hard_limit; in every other case it returns the body as
\* it received it.
C17_HardLimit ==
    (filter = "warn_if_long_chat" /\ fpc # "call")
        => IF ~Exempted
              /\ Len(body.messages) > body.number_of_message_hard_limit
           THEN fpc = "raised"
           ELSE fpc = "returned" /\ returned.value = body.messages

\* C17 witness: a chat of exactly hard limit + 1 messages was refused to a
\* user who is not in the list of the exempted, which is not empty
C17_Witness ==
    /\ filter = "warn_if_long_chat" /\ fpc = "raised"
    /\ Len(body.messages) = body.number_of_message_hard_limit + 1
    /\ body.user_name = "bob" /\ body.exempted_users = <<Entry("alice", FALSE)>>

\* the reply of the model, appended to the messages before the outlet
AssistantReply == [id |-> 0, role |-> "assistant", content |-> StrContent(<<"r">>)]

\* the media items of the user messages, in order
RECURSIVE UserMedia(_)
UserMedia(messages) ==
    IF messages = <<>> THEN <<>>
    ELSE (IF Head(messages).role = "user" /\ Head(messages).content.kind = "list"
          THEN SelectSeq(Head(messages).content.items, IsMediaItem) ELSE <<>>)
         \o UserMedia(Tail(messages))

\* C18: after the enabled inlet of CombineUserMessages on a body with at
\* least one message, the messages hold no assistant message, the system
\* messages of the input in their order, and exactly one user message, which
\* carries the media of all user messages; with one assistant reply appended
\* they pass the assertions of the outlet.  The code violates it.
C18_CombineShape ==
    (filter = "combine_user_messages" /\ fpc = "returned"
     /\ body.enabled /\ body.user_enabled /\ Len(body.messages) >= 1)
        => LET value == returned.value
               users == {i \in 1..Len(value) : value[i].role = "user"}
           IN  /\ CountRole(value, "assistant") = 0
               /\ SelectSeq(value, IsSystem) = SelectSeq(body.messages, IsSystem)
               /\ Cardinality(users) = 1
               /\ \A i \in users :
                     UserMedia(<<value[i]>>) = UserMedia(body.messages)
               /\ outlet_validation(value \o <<AssistantReply>>)

\* the last n of s, none for n <= 0
LastOrNone(s, n) == IF n <= 0 THEN <<>> ELSE LastN(s, n)

\* the ids of the messages but for the message the inlet creates
InputIds(messages) == SelectSeq(Ids(messages), LAMBDA i : i # 0)

\* the history of a body: the messages before the last one
History(messages) == DropLast(messages, 1)

DeckReturned == filter = "anki_deck_creator_filter" /\ fpc = "returned"

\* the non-system messages are the last n non-system messages of the
\* history and then the last message of the body; the system messages are kept
KeepsLastAndCurrent(messages, n, value) ==
    /\ Ids(SelectSeq(value, NotSystem))
           = LastOrNone(Ids(SelectSeq(History(messages), NotSystem)), n)
                 \o <<messages[Len(messages)].id>>
    /\ InputIds(SelectSeq(value, IsSystem)) = Ids(SelectSeq(messages, IsSystem))

\* C20 as stated: after the inlet of the Anki Deck Creator filter (enabled
\* for the user) with N_messages_to_keep = n, the non-system messages are the
\* last n non-system messages of the history followed by the current user
\* message, and all system messages are kept.  Violated: a fields_description
\* that is no JSON, n < 0 and a body that does not end with a user message
\* leave other messages.
C20_KeepLastN ==
    (DeckReturned /\ body.mode # "disabled" /\ body.messages # <<>>)
        => KeepsLastAndCurrent(body.messages, body.n, returned.value)

\* C20 amended: with the filter enabled, a fields_description that parses and
\* n >= 0, a body that ends with a user message keeps the last n non-system
\* messages of the history, then that user message, and all system
\* messages; a body that does not end with a user message keeps its last n
\* non-system messages and all system messages.
C20_KeepLastNAmended ==
    (DeckReturned /\ body.mode = "ok" /\ body.n >= 0)
        => IF body.messages # <<>> /\ body.messages[Len(body.messages)].role = "user"
           THEN KeepsLastAndCurrent(body.messages, body.n, returned.value)
           ELSE /\ Ids(SelectSeq(returned.value, NotSystem))
                      = LastOrNone(Ids(SelectSeq(body.messages, NotSystem)), body.n)
                /\ InputIds(SelectSeq(returned.value, IsSystem))
                      = Ids(SelectSeq(body.messages, IsSystem))

C20_Witness ==
    /\ DeckReturned /\ body.mode = "ok" /\ body.n = 1 /\ body.regex_keeper
    /\ Len(body.messages) = MaxDeckChat
    /\ body.messages[Len(body.messages)].role = "user"
    /\ Len(SelectSeq(History(body.messages), NotSystem)) >= 2
    /\ Len(SelectSeq(returned.value, NotSystem)) = 2

(***************************************************************************)
(* Two calls of Pipe.pipe on one Pipe instance.  pipe is an async          *)
(* generator: a call is suspended at every yield and every await, so the   *)
(* passes of the loops of the two calls interleave in any order.  Both     *)
(* calls stream with thought removal enabled and a valid api_key.          *)
(***************************************************************************)
Runs == {1, 2}
RunTexts == {"ScenarioA", "ScenarioC", "LongLead"}
\* how many characters a content line of the upstream carries
RunChunks == {5, 11}

\* mutant of CallsCallback: emit calls the callback without testing it
CallsCallbackAlways(event_emitter) == TRUE

\* EventEmitter.emit, "if self.event_emitter:": whether the callback is called
CallsCallback(event_emitter) == event_emitter

\* whether one of the calls of prog, succ and err reaches EventEmitter.emit
RECURSIVE Emits(_, _, _)
Emits(v, ns, calls) ==
    /\ calls # <<>>
    /\ \/ ~Repeats(v, Head(calls), ns.latest_message)
       \/ Emits(v, Notify(v, ns, Head(calls)), Tail(calls))

\* "await self.event_emitter(...)" raises TypeError when the callback is None
EmitRaises(v, run, calls) ==
    /\ Emits(v, run.ns, calls)
    /\ CallsCallback(run.has_emitter)
    /\ ~run.has_emitter

\* mutant of Locals: buffer and thought_removed are kept on the instance,
\* which the calls share
LocalsOnSelf(r) == 1

\* "buffer = ''" and "thought_removed = 0" are locals of the call: the call
\* whose frame holds the buffer and the counter that call r uses
Locals(r) == r

InitialRun(t, k, e) ==
    [text |-> t, chunk |-> k, has_emitter |-> e, pos |-> 0, pc |-> "start",
     buffer |-> <<>>, thought_removed |-> 0, discarded |-> <<>>,
     yielded |-> <<>>,
     ns |-> [latest_message |-> NoMsg, clear_emitter |-> ~debug,
             notes |-> {}, last_note |-> NoEvent],
     exc |-> "", overlapped |-> FALSE]

RunsInit ==
    /\ NoPipe /\ NoFilter /\ NoCards /\ NoTraces /\ NoInlets
    /\ instance \in {"remove", "hide"}
    /\ runs \in [Runs -> {InitialRun(t, k, e) :
                            t \in RunTexts, k \in RunChunks, e \in BOOLEAN}]

\* whether another call is inside its loop
Overlaps(r) == \E x \in Runs \ {r} : runs[x].pc = "stream"

\* call r after a step that leaves buffer buf and counter n, yields frags,
\* calls prog, succ and err, reads len characters and goes to next
StepOf(r, buf, n, disc, frags, calls, len, next) ==
    LET run == runs[r]
        o == Locals(r)
        mine == IF EmitRaises(instance, run, calls)
                THEN [run EXCEPT !.pc = "raised", !.exc = "TypeError",
                                 !.overlapped = @ \/ Overlaps(r)]
                ELSE [run EXCEPT !.pos = @ + len,
                                 !.pc = next,
                                 !.discarded = disc,
                                 !.yielded = @ \o Concat(frags),
                                 !.ns = NotifyAll(instance, @, calls),
                                 !.overlapped = @ \/ Overlaps(r)]
    IN  runs' = [x \in Runs |->
                    LET base == IF x = r THEN mine ELSE runs[x]
                    IN  IF x = o /\ mine.pc # "raised"
                        THEN [base EXCEPT !.buffer = buf, !.thought_removed = n]
                        ELSE base]

\* from the start of pipe to the first pass of the loop over the lines
RunBegin(r) ==
    /\ runs[r].pc = "start"
    /\ StepOf(r, <<>>, 0, <<>>, <<>>,
              <<prog(Msg("Waiting for response", 0, "")),
                prog(Msg("Receiving chunks", 0, ""))>>, 0, "stream")
    /\ UNCHANGED <<instance, pipeVars, filterVars, cardVars, traceVars, inletVars>>

\* one pass of the loop over the lines, with the next chunk of the text
RunChunk(r) ==
    LET run == runs[r]
        o == Locals(r)
        t == TextOf(run.text)
        content == SubSeq(t, run.pos + 1, Min({run.pos + run.chunk, Len(t)}))
        b == LoopBody(instance, runs[o].buffer, runs[o].thought_removed,
                      run.discarded, content)
    IN  /\ run.pc = "stream"
        /\ run.pos < Len(t)
        /\ StepOf(r, b.buffer, b.thought_removed, b.discarded, b.yields,
                  b.calls, Len(content), "stream")
        /\ UNCHANGED <<instance, pipeVars, filterVars, cardVars, traceVars, inletVars>>

\* the code after the loop, to the return
RunFinish(r) ==
    LET run == runs[r]
        o == Locals(r)
        f == Flush(instance, runs[o].buffer, runs[o].thought_removed)
        ns == NotifyAll(instance, run.ns, f.calls)
    IN  /\ run.pc = "stream"
        /\ run.pos = Len(TextOf(run.text))
        /\ StepOf(r, f.buffer, f.thought_removed, run.discarded, f.yields,
                  f.calls \o ClearCalls(ns), 0, "done")
        /\ UNCHANGED <<instance, pipeVars, filterVars, cardVars, traceVars, inletVars>>

RunsNext ==
    \/ \E r \in Runs : RunBegin(r)
    \/ \E r \in Runs : RunChunk(r)
    \/ \E r \in Runs : RunFinish(r)

SpecRuns == RunsInit /\ [][RunsNext]_vars

\* the chunks of k characters of a text
RECURSIVE ChunksOf(_, _)
ChunksOf(t, k) ==
    IF t = <<>> THEN <<>>
    ELSE <<Take(t, Min({k, Len(t)}))>> \o ChunksOf(Drop(t, Min({k, Len(t)})), k)

Finished(run) == run.pc \in {"done", "raised"}

\* C13: two calls that get the same chunks, one with a callback and one with
\* None, have yielded the same text when they have ended, and ended alike.
C13_CallbackIrrelevant ==
    \A r1, r2 \in DOMAIN runs :
        (/\ runs[r1].text = runs[r2].text /\ runs[r1].chunk = runs[r2].chunk
         /\ runs[r1].has_emitter /\ ~runs[r2].has_emitter
         /\ Finished(runs[r1]) /\ Finished(runs[r2]))
            => /\ runs[r1].yielded = runs[r2].yielded
               /\ runs[r1].pc = runs[r2].pc

C13_Witness ==
    /\ instance = "remove"
    /\ runs # <<>>
    /\ runs[1].text = "LongLead" /\ runs[2].text = "LongLead"
    /\ runs[1].chunk = runs[2].chunk
    /\ runs[1].has_emitter /\ ~runs[2].has_emitter
    /\ runs[1].pc = "done" /\ runs[2].pc = "done"
    /\ runs[1].ns.notes # {}
    /\ runs[2].yielded # <<>>

\* C15: a call of pipe that has returned has yielded what the same chunks
\* yield in a call that runs alone, whatever the other call on the same
\* instance did in between.
C15_CallsIndependent ==
    \A r \in DOMAIN runs :
        runs[r].pc = "done"
            => runs[r].yielded
                   = RunPipe(instance,
                             ChunksOf(TextOf(runs[r].text), runs[r].chunk)).yielded

C15_Witness ==
    /\ runs # <<>>
    /\ runs[1].pc = "done" /\ runs[2].pc = "done"
    /\ runs[1].overlapped /\ runs[2].overlapped
    /\ runs[1].text = "ScenarioA" /\ runs[2].text = "LongLead"
    /\ runs[1].thought_removed = 1 /\ runs[2].thought_removed = 1

\* the cards of a text of cards
CardSet(t) == {t[i] : i \in 1..Len(t)}

\* C19: the cards of every call of the outlet that has returned are in the
\* cards.json of its chat, also when calls for the same chat overlap.  The
\* code violates it: a call suspended between loading and saving overwrites
\* what another call has saved meanwhile.
C19_NoCardLost ==
    \A c \in DOMAIN outlets :
        outlets[c].pc = "done"
            => CardSet(NewCards(c, outlets[c].in.reply))
                   \subseteq CardSet(cards[outlets[c].in.chat_id])

\* the texts of a content
TextsOf(content) ==
    IF content.kind = "str" THEN {content.text}
    ELSE {content.items[i].text :
             i \in {j \in 1..Len(content.items) : content.items[j].type = "text"}}

\* C21: after DontAccumulateThoughts.inlet the messages are as many, in the
\* same order, the messages that are not assistant messages are unchanged,
\* and no text of an assistant message holds a complete
\* <thinking>...</thinking> block.  The code violates the last part: its one
\* pass of re.sub can leave a block put together from what surrounds a
\* removed block.
C21_OnlyAssistantChanged ==
    (filter = "DontAccumulateThoughts" /\ fpc = "returned")
        => /\ Len(returned.value) = Len(body.messages)
           /\ \A i \in 1..Len(body.messages) :
                 /\ returned.value[i].id = body.messages[i].id
                 /\ returned.value[i].role = body.messages[i].role
                 /\ body.messages[i].role # "assistant"
                        => returned.value[i] = body.messages[i]
                 /\ body.messages[i].role = "assistant"
                        => \A t \in TextsOf(returned.value[i].content) :
                               ~ThinkingSearch(t)

\* how many complete spans s holds, matched non-greedily from left to right
RECURSIVE CountSpans(_)
CountSpans(s) ==
    LET m == FirstSpan(s)
    IN  IF ~m.found THEN 0 ELSE 1 + CountSpans(Drop(s, m.to))

\* the positions of the text between the first two complete spans of s
BetweenSpans(s) ==
    LET rest == Drop(s, FirstSpan(s).to)
    IN  {rest[i].p : i \in 1..(FirstSpan(rest).from - 1)}

\* C22: when the delivered text holds two complete thought blocks with text
\* between them, each block is removed on its own (the counter is 2) and the
\* text between them is yielded, whatever the chunking.  The code violates
\* it: its pattern is greedy.
C22_BlocksRemovedSeparately ==
    (StreamDone /\ CountSpans(Consumed) = 2 /\ BetweenSpans(Consumed) # {})
        => /\ thought_removed = 2
           /\ BetweenSpans(Consumed) \subseteq YieldedPositions

\* C23: when the stream has ended, thought_removed is the number of complete
\* start..stop spans of the delivered text, whatever the chunking.  The code
\* violates it.
C23_CounterCountsSpans ==
    StreamDone => thought_removed = CountSpans(Consumed)

\* the loop of the pipe has processed at least one chunk of text
Streaming == pc = "stream" /\ stream /\ remove_thoughts /\ pos > 0

\* C24: while no start delimiter is in the buffer, the buffer after each
\* processed chunk is no longer than len_start_thought, the hold-back bound
\* computed from the start delimiter, whatever the number and the size of the
\* chunks.
C24_BufferBounded ==
    (Streaming /\ ~StartSearch(buffer)) => Len(buffer) <= len_start_thought

\* C24 witness: a chunk has made the buffer longer than the bound, the code
\* has yielded the beginning and kept exactly len_start_thought characters
C24_Witness ==
    /\ Streaming /\ ~StartSearch(buffer)
    /\ yielded # <<>> /\ Len(buffer) = len_start_thought
    /\ buffer[Len(buffer)].p = pos

\* the strings a regular expression of literals and "x?" matches, from index k
RECURSIVE Words(_, _)
Words(re, k) ==
    IF k > Len(re) THEN {<<>>}
    ELSE IF k < Len(re) /\ re[k + 1] = "?"
         THEN {<<re[k]>> \o w : w \in Words(re, k + 2)} \cup Words(re, k + 2)
         ELSE {<<re[k]>> \o w : w \in Words(re, k + 1)}

\* the tail of buf is the beginning of a start delimiter that more input
\* could complete
TailBeginsStart(buf) ==
    \E w \in Words(start_thought, 1) :
        \E k \in 1..Len(buf) :
            k < Len(w) /\ Chars(TakeLast(buf, k)) = Take(w, k)

NewYield == Drop(yielded', Len(yielded))
NewPlain ==
    LET lits == {i \in 1..Len(NewYield) : NewYield[i].p = 0}
    IN  IF lits = {} THEN NewYield ELSE Drop(NewYield, Max(lits))

MaxTraceCalls == 3

None == <<"none", 0>>
TraceIds == {<<"c", 1>>, <<"c", 2>>}
TraceTasks == {"title_generation"}

\* dict[k] = v
MapSet(f, k, v) == [x \in DOMAIN f \cup {k} |-> IF x = k THEN v ELSE f[x]]

\* the bodies of the calls: "chat_id", "metadata" (with "chat_id", "task" and
\* the "name" of "model", each of them or all of it absent), and which of the
\* keys "model" and "messages" the body has
NoMetadata ==
    [present |-> FALSE, chat_id |-> None, task |-> "none", name |-> "none",
     type |-> "none"]
TraceMetadata ==
    {NoMetadata}
        \cup [present : {TRUE}, chat_id : TraceIds \cup {None},
              task : TraceTasks \cup {"none"}, name : {"none", "model name"},
              type : {"none"}]
TraceBodies ==
    [chat_id : TraceIds \cup {None}, metadata : TraceMetadata,
     keys : {"all", "no model", "no messages"}]

\* Pipeline._build_tags, with the default insert_tags = True
_build_tags(task_name) ==
    <<"open-webui">>
        \o (IF task_name \in {"user_response", "llm_response"} THEN <<>>
            ELSE <<task_name>>)

\* self.GENERATION_TASKS
GENERATION_TASKS == {"llm_response"}

\* the state of the pipeline object a call starts in
Pipeline == [langfuse |-> langfuse, chat_traces |-> chat_traces,
             model_names |-> model_names]

\* what a call does: the state it leaves, how it ends and what it returns
NoBody == [chat_id |-> None, metadata |-> NoMetadata, keys |-> "none"]
TraceRaise(st, e) == [st |-> st, outcome |-> e, result |-> NoBody]
TraceReturn(st, b) == [st |-> st, outcome |-> "returned", result |-> b]

\* Pipeline.inlet
pipeline_inlet(st, b) ==
    LET metadata == b.metadata
        \* metadata.get("chat_id", str(uuid.uuid4())): a uuid is drawn in
        \* every call and is the chat id when the metadata has none
        uuids == st.langfuse.uuids + 1
        chat_id == IF metadata.chat_id = None THEN <<"u", uuids>>
                   ELSE metadata.chat_id
        model_id == IF b.keys = "no model" THEN "none" ELSE "model id"
        old_name == IF chat_id \in DOMAIN st.model_names
                    THEN st.model_names[chat_id].name ELSE "none"
        names == MapSet(st.model_names, chat_id,
                        [id |-> model_id,
                         name |-> IF metadata.name # "none" THEN metadata.name
                                  ELSE old_name])
        st1 == [st EXCEPT !.langfuse.uuids = uuids, !.model_names = names]
        task_name == IF metadata.task = "none" THEN "user_response"
                     ELSE metadata.task
        tags_list == _build_tags(task_name)
        registered == chat_id \in DOMAIN st.chat_traces
        trace == IF registered
                 THEN [st.chat_traces[chat_id] EXCEPT !.tags = tags_list]
                 ELSE [session_id |-> chat_id, tags |-> tags_list,
                       observations |-> <<>>, output |-> FALSE]
        observed == [trace EXCEPT !.observations =
                        Append(@, IF task_name \in GENERATION_TASKS
                                  THEN "generation" ELSE "event")]
        st2 == [st1 EXCEPT !.chat_traces = MapSet(@, chat_id, observed)]
    IN  IF b.keys # "all" THEN TraceRaise(st1, "ValueError")
        ELSE IF ~registered /\ ~st.langfuse.client
        THEN TraceRaise(st1, "AttributeError")
        ELSE TraceReturn(st2,
                 [b EXCEPT !.metadata =
                     [present |-> TRUE, chat_id |-> chat_id,
                      task |-> metadata.task, name |-> metadata.name,
                      type |-> task_name]])

\* Pipeline.outlet
pipeline_outlet(st, b) ==
    LET chat_id == b.chat_id
        task_name == IF b.metadata.task = "none" THEN "llm_response"
                     ELSE b.metadata.task
        tags_list == _build_tags(task_name)
    IN  IF chat_id \notin DOMAIN st.chat_traces THEN pipeline_inlet(st, b)
        ELSE IF b.keys = "no messages" THEN TraceRaise(st, "KeyError")
        ELSE LET trace == st.chat_traces[chat_id]
                 ended == [trace EXCEPT
                              !.output = TRUE,
                              !.observations =
                                  Append(@, IF task_name \in GENERATION_TASKS
                                            THEN "generation end" ELSE "event")]
             IN  TraceReturn(
                     [st EXCEPT !.chat_traces = MapSet(@, chat_id, ended)],
                     \* without "metadata" the body gets none: the dict
                     \* that body.get("metadata", {}) made is dropped
                     IF ~b.metadata.present THEN b
                     ELSE [b EXCEPT !.metadata.type = task_name])

NoCall ==
    [op |-> "none", body |-> NoBody, outcome |-> "none", result |-> NoBody]

\* after Pipeline.__init__: no client, no trace, no model name
TracesInit ==
    /\ NoPipe /\ NoFilter /\ NoCards /\ NoRuns /\ NoInlets
    /\ langfuse = [client |-> FALSE, uuids |-> 0]
    /\ chat_traces = <<>>
    /\ model_names = <<>>
    /\ trace_calls = [n |-> 0, last |-> NoCall]

\* on_startup and on_valves_updated: set_langfuse makes the client; when
\* Langfuse(...) raises, self.langfuse stays what it was
SetLangfuse(ok) ==
    /\ langfuse' = [langfuse EXCEPT !.client = ok \/ @]
    /\ UNCHANGED <<chat_traces, model_names, trace_calls>>
    /\ UNCHANGED <<pipeVars, filterVars, cardVars, runVars, inletVars>>

\* a call leaves the pipeline in state r.st
TraceCall(op, b, r) ==
    /\ trace_calls.n < MaxTraceCalls
    /\ langfuse' = r.st.langfuse
    /\ chat_traces' = r.st.chat_traces
    /\ model_names' = r.st.model_names
    /\ trace_calls' = [n |-> trace_calls.n + 1,
                       last |-> [op |-> op, body |-> b, outcome |-> r.outcome,
                                 result |-> r.result]]
    /\ UNCHANGED <<pipeVars, filterVars, cardVars, runVars, inletVars>>

TraceInlet(b) == TraceCall("inlet", b, pipeline_inlet(Pipeline, b))
TraceOutlet(b) == TraceCall("outlet", b, pipeline_outlet(Pipeline, b))

TracesNext ==
    \/ \E ok \in BOOLEAN : SetLangfuse(ok)
    \/ \E b \in TraceBodies : TraceInlet(b)
    \/ \E b \in TraceBodies : TraceOutlet(b)

SpecTraces == TracesInit /\ [][TracesNext]_vars

\* the latest call was an outlet that ran and returned for a body with a
\* chat id
OutletDone ==
    /\ trace_calls'.n = trace_calls.n + 1
    /\ trace_calls'.last.op = "outlet"
    /\ trace_calls'.last.outcome = "returned"
    /\ trace_calls'.last.body.chat_id # None

\* C26: an outlet called with a body whose chat_id has no registered trace
\* registers it through inlet: when the call has returned, chat_traces has an
\* entry under that chat_id, which a later outlet finds.  The code violates
\* it: inlet takes the chat id from body["metadata"], outlet from the body.
C26_OutletReRegisters ==
    [][(OutletDone /\ trace_calls'.last.body.chat_id \notin DOMAIN chat_traces)
          => trace_calls'.last.body.chat_id \in DOMAIN chat_traces']_vars

(***************************************************************************)
(* filters/anki_deck_creator_filter.py, Filter.outlet and the inlet of the *)
(* next request of the same chat.  A reply holds its cards as              *)
(* "<details id=anki_card><summary>..</summary>" (one token), the JSON     *)
(* text (one token) and "</details>".                                      *)
(***************************************************************************)
\* the longest chat the outlet is called with
MaxReplyChat == 3

CardOpen == "<details id=anki_card><summary>Card</summary>"
CardClose == "</details>"
ConfigOpen == "<details id=anki_fields_config><summary>Fields Configuration</summary>"

\* fields_config_tag: the fields description in a nested details tag
fields_config_tag ==
    <<"NL", ConfigOpen, "NL", "fields_description", "NL", CardClose, "NL">>

\* json.loads of a captured text: how many cards it holds (a list counts its
\* elements, any other JSON value is one card), -1 when it raises
JsonLoads(capture) ==
    IF Len(capture) # 1 THEN -1
    ELSE CASE capture[1] = "[card]" -> 1
           [] capture[1] = "[card, card]" -> 2
           [] capture[1] = "{card}" -> 1
           [] OTHER -> -1

\* the index of the first "</details>" of s from index i on, 0 when none
FirstClose(s, i) ==
    LET closes == {k \in i..Len(s) : s[k] = CardClose}
    IN  IF closes = {} THEN 0 ELSE Min(closes)

\* json_pattern (config = FALSE) and msg_pattern (config = TRUE, the optional
\* group for the fields configuration) matched at index i of s:
\* [to: the index of the closing tag, 0 when there is no match; capture]
CardMatch(s, i, config) ==
    LET from == SkipNL(s, i + 1)
        group == IF config /\ from <= Len(s) /\ s[from] = ConfigOpen
                    /\ FirstClose(s, from) # 0
                 THEN SkipNL(s, FirstClose(s, from) + 1) ELSE from
        \* without a closing tag after the group the pattern backtracks to
        \* the match without the group
        start == IF FirstClose(s, group) # 0 THEN group ELSE from
        to == FirstClose(s, start)
    IN  IF s[i] # CardOpen \/ to = 0 THEN [to |-> 0, capture |-> <<>>]
        ELSE [to |-> to, capture |-> StripRight(SubSeq(s, start, to - 1))]

\* re.findall of one of the two patterns: the captures, from left to right
RECURSIVE CardFindAll(_, _, _)
CardFindAll(s, i, config) ==
    IF i > Len(s) THEN <<>>
    ELSE LET m == CardMatch(s, i, config)
         IN  IF m.to = 0 THEN CardFindAll(s, i + 1, config)
             ELSE <<m.capture>> \o CardFindAll(s, m.to + 1, config)

\* re.sub that inserts fields_config_tag after every opening of a card
\* block that json_pattern's opening matches
RECURSIVE InjectConfig(_, _)
InjectConfig(s, i) ==
    IF i > Len(s) THEN <<>>
    ELSE IF s[i] = CardOpen
    THEN <<s[i]>> \o fields_config_tag \o InjectConfig(s, i + 1)
    ELSE <<s[i]>> \o InjectConfig(s, i + 1)

\* "total_cards": the cards of all assistant messages
RECURSIVE SumCards(_)
SumCards(captures) ==
    IF captures = <<>> THEN 0
    ELSE (IF JsonLoads(Head(captures)) < 0 THEN 0 ELSE JsonLoads(Head(captures)))
             + SumCards(Tail(captures))
RECURSIVE TotalCards(_)
TotalCards(messages) ==
    IF messages = <<>> THEN 0
    ELSE (IF Head(messages).role = "assistant"
          THEN SumCards(CardFindAll(Head(messages).content.text, 1, TRUE))
          ELSE 0) + TotalCards(Tail(messages))

\* Filter.outlet: the messages it leaves in the body.  A content that is a
\* list makes re.findall raise TypeError, which the outer except logs.
deck_outlet(enabled, messages) ==
    LET assistants == {i \in 1..Len(messages) : messages[i].role = "assistant"}
        last == Max(assistants)
        content == messages[last].content
        json_matches == CardFindAll(content.text, 1, FALSE)
        injected == [i \in 1..Len(messages) |->
                        IF i # last THEN messages[i]
                        ELSE [id |-> messages[i].id, role |-> "assistant",
                              content |->
                                  StrContent(InjectConfig(content.text, 1))]]
        new_cards == JsonLoads(json_matches[1])
        total_cards == TotalCards(injected)
    IN  IF ~enabled \/ assistants = {} THEN messages
        ELSE IF content.kind # "str" \/ json_matches = <<>> THEN messages
        ELSE IF new_cards < 0 THEN injected
        ELSE IF \E i \in assistants : messages[i].content.kind # "str"
        THEN injected
        ELSE [i \in 1..Len(messages) |->
                 IF i # last THEN injected[i]
                 ELSE [id |-> messages[i].id, role |-> "assistant",
                       content |->
                           StrContent(injected[i].content.text
                                      \o info_msg(new_cards, total_cards))]]

\* the messages of a chat when the outlet is called
ReplyKinds ==
    {[role |-> "system", content |-> StrContent(<<"s">>)],
     [role |-> "user", content |-> StrContent(<<"q">>)],
     [role |-> "assistant", content |-> StrContent(<<"a">>)],
     [role |-> "assistant",
      content |-> StrContent(<<"a", CardOpen, "[card]", CardClose>>)],
     [role |-> "assistant",
      content |-> StrContent(<<CardOpen, "NL", "[card, card]", "NL", CardClose,
                               "NL">>)],
     [role |-> "assistant",
      content |-> StrContent(<<CardOpen, "not json", CardClose>>)],
     [role |-> "assistant",
      content |-> StrContent(<<CardOpen>> \o fields_config_tag
                                 \o <<"{card}", CardClose>>)],
     [role |-> "assistant", content |-> ListContent(<<TextItem(<<"a">>)>>)]}

\* the outlet is called with the chat; the inlet of the next request will be
\* called with what the outlet left and one more user message
DeckInit ==
    /\ NoPipe /\ NoCards /\ NoRuns /\ NoTraces /\ NoInlets
    /\ filter = "anki_deck_creator_filter"
    /\ body \in [enabled : BOOLEAN,
                 messages : {Numbered(k) : k \in SeqsUpTo(ReplyKinds, MaxReplyChat)}]
    /\ returned = <<>>
    /\ fpc = "outlet"

DeckOutlet ==
    /\ filter = "anki_deck_creator_filter" /\ fpc = "outlet"
    /\ returned' = [exc |-> "", value |-> deck_outlet(body.enabled, body.messages)]
    /\ fpc' = "outlet returned"
    /\ UNCHANGED <<filter, body, pipeVars, cardVars, runVars, traceVars, inletVars>>

\* the next request of the chat reaches the inlet
NextRequest(mode, n, regex_keeper) ==
    /\ filter = "anki_deck_creator_filter" /\ fpc = "outlet returned"
    /\ body' = [mode |-> mode, n |-> n, regex_keeper |-> regex_keeper,
                messages |-> returned.value
                    \o <<[id |-> Len(returned.value) + 1, role |-> "user",
                          content |-> StrContent(<<"q">>)]>>]
    /\ returned' = <<>>
    /\ fpc' = "call"
    /\ UNCHANGED <<filter, pipeVars, cardVars, runVars, traceVars, inletVars>>

DeckNext ==
    \/ DeckOutlet
    \/ \E mode \in DeckModes, n \in 0..MaxDeckKeep, regex_keeper \in BOOLEAN :
           NextRequest(mode, n, regex_keeper)
    \/ DeckInlet

SpecDeck == DeckInit /\ [][DeckNext]_vars

\* the text of a content that is a string ends with an info block
EndsWithInfo(content, new_cards, total_cards) ==
    /\ content.kind = "str"
    /\ Len(content.text) >= Len(info_msg(new_cards, total_cards))
    /\ TakeLast(content.text, Len(info_msg(new_cards, total_cards)))
           = info_msg(new_cards, total_cards)

\* C27: the inlet's clean-up takes the info block off again: an assistant
\* message that reaches the inlet as c + info_msg, whatever the two counts of
\* info_msg, has the content c when the inlet has returned it.  The code
\* violates it: the pattern begins with NL+ and ends with NL*.
C27_InfoRemoved ==
    (filter = "anki_deck_creator_filter" /\ fpc = "returned"
        /\ body.mode # "disabled")
        => \A i \in 1..Len(body.messages), j \in 1..Len(returned.value),
              new_cards \in 0..2, total_cards \in 0..(2 * MaxReplyChat) :
              (/\ body.messages[i].role = "assistant"
               /\ returned.value[j].id = body.messages[i].id
               /\ EndsWithInfo(body.messages[i].content, new_cards, total_cards))
                  => returned.value[j].content.text
                         = DropLast(body.messages[i].content.text,
                                    Len(info_msg(new_cards, total_cards)))

(***************************************************************************)
(* Calls of Filter.inlet on one Filter instance, each with its own         *)
(* __event_emitter__ (filters/combine_user_messages.py and                 *)
(* filters/anki_deck_creator_filter.py).  A call runs until a callback it  *)
(* awaits suspends it; another call may run in the meantime.  The callback *)
(* of call c is named c.                                                   *)
(***************************************************************************)
\* how many calls of inlet
MaxInlets == 2
InletCalls == 1..MaxInlets

Stmt(level, t) == [level |-> level, text |-> t]

\* the notifications of inlet after "self.emitter = EventEmitter(...)", in
\* the order of the code: "await self.log(text, level)", and "direct" for
\* "await self.emitter.progress_update(text)"
InletProgram(name, mode) ==
    IF name = "combine_user_messages"
    THEN CASE mode = "disabled" -> <<Stmt("info", "Filter disabled for this user")>>
           [] mode = "empty" ->
                  <<Stmt("info", "Processing inlet request"),
                    Stmt("info", "No messages found in body")>>
           [] mode = "ok" ->
                  <<Stmt("info", "Processing inlet request"),
                    Stmt("info", "Original messages"),
                    Stmt("info", "Combined messages"),
                    Stmt("direct", "Combined user messages into 1"),
                    Stmt("info", "Request processed successfully")>>
    ELSE CASE mode = "disabled" -> <<Stmt("info", "Filter disabled for this user")>>
           [] mode = "bad_fields" ->
                  <<Stmt("info", "Processing inlet request"),
                    Stmt("error", "Invalid fields_description JSON")>>
           [] mode = "ok" ->
                  <<Stmt("info", "Processing inlet request"),
                    Stmt("info", "Added flashcard creation instruction"),
                    Stmt("debug", "Filtered messages")>>

InletModes(name) ==
    IF name = "combine_user_messages" THEN {"disabled", "empty", "ok"}
    ELSE {"disabled", "bad_fields", "ok"}

\* Filter.log: whether a message of the level reaches self.emitter.  The
\* combine filter shows info messages only with the valve debug, the deck
\* creator always.
LogEmits(name, dbg, level) ==
    CASE level = "direct" -> TRUE
      [] level = "error" -> TRUE
      [] level = "debug" -> dbg
      [] level = "info" -> IF name = "combine_user_messages" THEN dbg ELSE TRUE

\* call c from statement k on, the callback of call target in self.emitter:
\* every notification goes to that callback, and the call stops where the
\* callback suspends it.  [pc: the statement to go on with, got: what every
\* callback has received]
RECURSIVE RunInlet(_, _, _, _)
RunInlet(c, k, target, got) ==
    LET program == InletProgram(shared_filter.name, inlets[c].mode)
        received == [t \in InletCalls |->
                        IF t # target THEN got[t]
                        ELSE got[t] \cup {[from |-> c, text |-> program[k].text]}]
    IN  IF k > Len(program) THEN [pc |-> k, got |-> got]
        ELSE IF ~LogEmits(shared_filter.name, shared_filter.debug, program[k].level)
        THEN RunInlet(c, k + 1, target, got)
        ELSE IF inlets[target].suspends THEN [pc |-> k + 1, got |-> received]
        ELSE RunInlet(c, k + 1, target, received)

InletsInit ==
    /\ NoPipe /\ NoFilter /\ NoCards /\ NoRuns /\ NoTraces
    /\ shared_filter \in [name : {"combine_user_messages", "anki_deck_creator_filter"},
                          debug : BOOLEAN]
    /\ shared_emitter = 0
    /\ inlets \in [InletCalls ->
                      [mode : InletModes(shared_filter.name), suspends : BOOLEAN,
                       pc : {0}, received : {{}}]]

\* call c after a run r
AfterRun(c, r) ==
    inlets' = [t \in InletCalls |->
                  [mode |-> inlets[t].mode, suspends |-> inlets[t].suspends,
                   pc |-> IF t = c THEN r.pc ELSE inlets[t].pc,
                   received |-> r.got[t]]]

Received == [t \in InletCalls |-> inlets[t].received]

\* inlet from its start: "self.emitter = EventEmitter(__event_emitter__)",
\* then the code to the first callback that suspends the call
InletBegin(c) ==
    /\ inlets[c].pc = 0
    /\ shared_emitter' = c
    /\ AfterRun(c, RunInlet(c, 1, c, Received))
    /\ UNCHANGED <<shared_filter, pipeVars, filterVars, cardVars, runVars, traceVars>>

\* the callback has returned: the call goes on, with the self.emitter of now
InletResume(c) ==
    /\ inlets[c].pc \in 1..Len(InletProgram(shared_filter.name, inlets[c].mode))
    /\ AfterRun(c, RunInlet(c, inlets[c].pc, shared_emitter, Received))
    /\ UNCHANGED <<shared_filter, shared_emitter, pipeVars, filterVars,
                   cardVars, runVars, traceVars>>

InletsNext ==
    \/ \E c \in InletCalls : InletBegin(c)
    \/ \E c \in InletCalls : InletResume(c)

SpecInlets == InletsInit /\ [][InletsNext]_vars

\* C28: when calls of inlet on one instance overlap, every notification a
\* call produces reaches the callback of that call and never the callback of
\* another call.  The code violates it: the emitter is kept in self.emitter,
\* which every call replaces.
C28_OwnEmitter ==
    \A t \in DOMAIN inlets : \A n \in inlets[t].received : n.from = t
====
